---- MODULE Spec2Model ----
(***************************************************************************)
(* Model of the hybrid query orchestrator of the portfolio backend         *)
(* (backend/agent/query_handler.py, backend/agent/rag.py,                  *)
(* backend/agent/prompts.py, backend/agent/llm_provider.py).               *)
(*                                                                         *)
(* Text is modelled with TLA+ strings (concatenation with \o, Len).  A     *)
(* query is a sequence of words; a substring test of the code becomes a    *)
(* phrase test on the word sequence, with the word-level containments      *)
(* listed in PrefixOf / SuffixOf.  Relevance scores are hundredths.        *)
(***************************************************************************)
EXTENDS Integers, Sequences, FiniteSets, TLC

VARIABLES rag_ready, programs, config, call, flag_changed,
          fn_in, fn_out, eq_env, eq_sync, eq_stream,
          index, builds, startup, loop, linear

vars == <<rag_ready, programs, config, call, flag_changed,
          fn_in, fn_out, eq_env, eq_sync, eq_stream,
          index, builds, startup, loop, linear>>

\* ---------------------------------------------------------------- bounds
MaxChunks == 2
MaxQueryLen == 4
MaxResults == 3

\* Python's None
NONE == "<None>"

\* str(x) as an f-string renders it
Str(x) == IF x = NONE THEN "None" ELSE x

\* ------------------------------------------------------- generic helpers
RECURSIVE Join(_, _)
Join(parts, sep) ==
    IF Len(parts) = 0 THEN ""
    ELSE IF Len(parts) = 1 THEN parts[1]
    ELSE parts[1] \o sep \o Join(Tail(parts), sep)

RECURSIVE ConcatAll(_)
ConcatAll(ss) == IF Len(ss) = 0 THEN "" ELSE ss[1] \o ConcatAll(Tail(ss))

RECURSIVE SeqSum(_)
SeqSum(s) == IF Len(s) = 0 THEN 0 ELSE s[1] + SeqSum(Tail(s))

SeqsUpTo(S, n) == UNION {[1..k -> S] : k \in 0..n}

\* ------------------------------------------------------ words and phrases
\* <<needle, word>>: needle is a proper prefix (suffix) of word
PrefixOf == {<<"risk", "risks">>, <<"launch", "launching">>, <<"in", "information">>}
SuffixOf == {<<"how", "show">>, <<"risk", "at-risk">>}

StartsWith(word, needle) == word = needle \/ <<needle, word>> \in PrefixOf
EndsWith(word, needle) == word = needle \/ <<needle, word>> \in SuffixOf
WordContains(word, needle) == StartsWith(word, needle) \/ EndsWith(word, needle)

\* str.lower() on the words of the vocabulary
LowerWord(w) ==
    CASE w = "How" -> "how"
      [] w = "Summarize" -> "summarize"
      [] w = "Mobile" -> "mobile"
      [] w = "RISKS" -> "risks"
      [] OTHER -> w

lower(q) == [i \in DOMAIN q |-> LowerWord(q[i])]

\* the phrase ph occurs in the text of q starting inside word i
PhraseAt(q, i, ph) ==
    LET n == Len(ph) IN
    /\ i + n - 1 <= Len(q)
    /\ IF n = 1 THEN WordContains(q[i], ph[1])
       ELSE /\ EndsWith(q[i], ph[1])
            /\ \A j \in 2..(n - 1) : q[i + j - 1] = ph[j]
            /\ StartsWith(q[i + n - 1], ph[n])

\* Python's `needle in text`
Contains(q, ph) == \E i \in 1..Len(q) : PhraseAt(q, i, ph)

\* re.search of a literal phrase followed by one word of a group
PhraseThenOneOf(q, ph, group) ==
    \E i \in 1..Len(q) : \E g \in group : PhraseAt(q, i, ph \o <<g>>)

\* re.search(r"programs in .* status"): ".*" needs the two blanks around it
ProgramsInStatus(q) ==
    \E i \in 1..Len(q) : \E k \in 1..Len(q) :
        /\ PhraseAt(q, i, <<"programs", "in">>)
        /\ q[i + 1] = "in"
        /\ k >= i + 3
        /\ StartsWith(q[k], "status")

\* re.search(r"risks? (across|for|in)")
RisksAcross(q) ==
    \E i \in 1..(Len(q) - 1) :
        /\ EndsWith(q[i], "risk") \/ EndsWith(q[i], "risks")
        /\ \E g \in {"across", "for", "in"} : StartsWith(q[i + 1], g)

MatchesStructured(q) ==
    \/ Contains(q, <<"how", "many">>)
    \/ Contains(q, <<"count", "of">>)
    \/ Contains(q, <<"list", "all">>)
    \/ Contains(q, <<"show", "me", "all">>)
    \/ Contains(q, <<"what", "is", "the", "status", "of">>)
    \/ Contains(q, <<"which", "programs", "are">>)
    \/ ProgramsInStatus(q)
    \/ PhraseThenOneOf(q, <<"programs", "launching">>, {"this", "next", "in"})

MatchesSemantic(q) ==
    \/ PhraseThenOneOf(q, <<"what", "are", "the">>, {"main", "key", "biggest", "top"})
    \/ Contains(q, <<"summarize">>)
    \/ Contains(q, <<"explain">>)
    \/ Contains(q, <<"why", "is">>)
    \/ Contains(q, <<"tell", "me", "about">>)
    \/ RisksAcross(q)
    \/ Contains(q, <<"health", "of">>)

DetectSemanticFirst(query) ==
    LET query_lower == lower(query) IN
    IF MatchesSemantic(query_lower) THEN "semantic" ELSE "hybrid"

_detect_query_type(query) ==
    LET query_lower == lower(query) IN
    IF MatchesStructured(query_lower) THEN "hybrid"
    ELSE IF MatchesSemantic(query_lower) THEN "semantic"
    ELSE "hybrid"

\* ------------------------------------------------------------- fixtures
\* database/models.py: Program, Risk (the fields the orchestrator reads)
RiskVendor == [id |-> "r1", title |-> "Vendor slip", severity |-> "Low",
               mitigation |-> "Dual source", status |-> "Open"]
RiskBudget == [id |-> "r2", title |-> "Budget", severity |-> "High",
               mitigation |-> NONE, status |-> "Mitigated"]
MilestoneBeta == [id |-> "m1", name |-> "Beta launch", status |-> "Pending"]

Alpha == [id |-> "p1", name |-> "Alpha", status |-> "At Risk",
          product_line |-> "Mobile", pipeline_stage |-> "Planning",
          launch_date |-> "2026-03-05", progress |-> 40,
          last_update |-> "Vendor delay", risks |-> <<RiskVendor, RiskBudget>>,
          milestones |-> <<MilestoneBeta>>]
\* a program synced without a product-line label (sync_engine._extract_product_line)
Beta == [id |-> "p2", name |-> "Beta", status |-> "On Track",
         product_line |-> NONE, pipeline_stage |-> NONE,
         launch_date |-> NONE, progress |-> 0,
         last_update |-> NONE, risks |-> <<>>, milestones |-> <<>>]
Gamma == [id |-> "p3", name |-> "Gamma", status |-> "Off Track",
          product_line |-> "Platform", pipeline_stage |-> "Launching",
          launch_date |-> "2026-02-10", progress |-> 90,
          last_update |-> "Slipped", risks |-> <<>>, milestones |-> <<>>]

Stores == {<<>>, <<Alpha, Gamma>>, <<Alpha, Beta>>}

\* str.startswith on the launch dates of the fixtures
DateStartsWith(date, prefix) ==
    \/ date = "2026-02-10" /\ prefix = "2026-02"
    \/ date = "2026-03-05" /\ prefix = "2026-03"

\* position of a launch date in ascending string order
DateBefore(d1, d2) == d1 = "2026-02-10" /\ d2 = "2026-03-05"

\* str.lower() / str.title() on product lines
LowerLine(pl) ==
    CASE pl = "Mobile" -> "mobile"
      [] pl = "Platform" -> "platform"
      [] pl = "Smart Home" -> "smart home"
      [] pl = "Video" -> "video"
      [] OTHER -> pl

TitleLine(pl) ==
    CASE pl = "mobile" -> "Mobile"
      [] pl = "platform" -> "Platform"
      [] pl = "smart home" -> "Smart Home"
      [] pl = "video" -> "Video"
      [] OTHER -> pl

\* ------------------------------------------------------ entity store reads
\* An entity-store call raises RuntimeError when the Supabase settings are
\* missing (db._get_config) and re-raises a transport error of the data API.
StoreCall(cfg, fault) ==
    IF ~cfg.supabase THEN "ConfigError"
    ELSE IF fault THEN "EntityStoreError"
    ELSE NONE

get_program_by_id(store, program_id) ==
    LET IsIt(p) == p.id = program_id
        rows == SelectSeq(store, IsIt)
    IN IF Len(rows) = 0 THEN <<>> ELSE <<rows[1]>>

get_all_programs(store) == store

\* ----------------------------------------------------- structured retriever
RECURSIVE FocusRisks(_)
FocusRisks(risks) ==
    IF Len(risks) = 0 THEN <<>>
    ELSE <<risks[1].title \o " (" \o risks[1].severity \o ")">> \o FocusRisks(Tail(risks))

\* lines 133-142: the block for the program the chat is scoped to
FocusBlock(found) ==
    IF Len(found) = 0 THEN <<>>
    ELSE LET program == found[1] IN
         << "Current Program Context: " \o program.name,
            "Status: " \o program.status,
            "Product Line: " \o Str(program.product_line),
            "Progress: " \o ToString(program.progress) \o "%" >>
         \o (IF Len(program.risks) > 0
             THEN <<"Risks: " \o Join(FocusRisks(program.risks), ", ")>>
             ELSE <<>>)

RECURSIVE StatusLines(_)
StatusLines(ps) ==
    IF Len(ps) = 0 THEN <<>>
    ELSE <<"- " \o ps[1].name \o " (" \o Str(ps[1].product_line) \o "): "
           \o Str(ps[1].last_update)>> \o StatusLines(Tail(ps))

\* lines 148-158: one section per status phrase found in the query
StatusSection(query_lower, progs, status, spaced, dashed) ==
    IF Contains(query_lower, spaced) \/ Contains(query_lower, dashed)
    THEN LET Has(p) == p.status = status
             hit == SelectSeq(progs, Has)
         IN <<"\n" \o status \o " Programs (" \o ToString(Len(hit)) \o "):">>
            \o StatusLines(hit)
    ELSE <<>>

RECURSIVE LaunchLines(_)
LaunchLines(ps) ==
    IF Len(ps) = 0 THEN <<>>
    ELSE <<"- " \o ps[1].name \o ": " \o ps[1].launch_date \o " (" \o ps[1].status \o ")">>
         \o LaunchLines(Tail(ps))

\* lines 161-184
LaunchSection(query_lower, progs) ==
    IF ~Contains(query_lower, <<"launch">>) THEN <<>>
    ELSE LET Dated(p) == p.launch_date # NONE
             InFeb(p) == Dated(p) /\ DateStartsWith(p.launch_date, "2026-02")
             InMar(p) == Dated(p) /\ DateStartsWith(p.launch_date, "2026-03")
             InQ1(p) == Dated(p) /\ (\/ DateStartsWith(p.launch_date, "2026-01")
                                     \/ DateStartsWith(p.launch_date, "2026-02")
                                     \/ DateStartsWith(p.launch_date, "2026-03"))
             First(p) == Dated(p) /\ \A q \in {progs[i] : i \in DOMAIN progs} :
                                        Dated(q) => ~DateBefore(q.launch_date, p.launch_date)
             Later(p) == Dated(p) /\ ~First(p)
             byDate == SelectSeq(progs, First) \o SelectSeq(progs, Later)
             launching ==
                 IF Contains(query_lower, <<"this", "month">>)
                    \/ Contains(query_lower, <<"february">>)
                 THEN SelectSeq(progs, InFeb)
                 ELSE IF Contains(query_lower, <<"this", "quarter">>)
                         \/ Contains(query_lower, <<"q1">>)
                 THEN SelectSeq(progs, InQ1)
                 ELSE IF Contains(query_lower, <<"next">>)
                 THEN SelectSeq(progs, InMar)
                 ELSE SubSeq(byDate, 1, IF Len(byDate) < 5 THEN Len(byDate) ELSE 5)
         IN IF Len(launching) > 0
            THEN <<"\nUpcoming Launches (" \o ToString(Len(launching)) \o "):">>
                 \o LaunchLines(launching)
            ELSE <<>>

product_lines == <<"smart home", "mobile", "platform", "video">>

LineWords(pl) == IF pl = "smart home" THEN <<"smart", "home">> ELSE <<pl>>

RECURSIVE LineLines(_)
LineLines(ps) ==
    IF Len(ps) = 0 THEN <<>>
    ELSE <<"- " \o ps[1].name \o ": " \o ps[1].status \o ", " \o Str(ps[1].pipeline_stage)>>
         \o LineLines(Tail(ps))

\* lines 187-193; raised: p.product_line.lower() on a program without one
RECURSIVE LineSections(_, _, _)
LineSections(query_lower, progs, k) ==
    IF k > Len(product_lines) THEN [raised |-> NONE, parts |-> <<>>]
    ELSE LET pl == product_lines[k]
             rest == LineSections(query_lower, progs, k + 1)
             Is(p) == LowerLine(p.product_line) = pl
             hit == SelectSeq(progs, Is)
         IN IF ~Contains(query_lower, LineWords(pl)) THEN rest
            ELSE IF \E i \in DOMAIN progs : progs[i].product_line = NONE
            THEN [raised |-> "AttributeError", parts |-> <<>>]
            ELSE [raised |-> rest.raised,
                  parts |-> <<"\n" \o TitleLine(pl) \o " Programs ("
                              \o ToString(Len(hit)) \o "):">>
                            \o LineLines(hit) \o rest.parts]

\* lines 197-200
RECURSIVE FlattenRisks(_)
FlattenRisks(progs) ==
    IF Len(progs) = 0 THEN <<>>
    ELSE [i \in DOMAIN progs[1].risks |->
             [prog_name |-> progs[1].name, risk |-> progs[1].risks[i]]]
         \o FlattenRisks(Tail(progs))

severity_order(sev) ==
    CASE sev = "High" -> 0
      [] sev = "Medium" -> 1
      [] sev = "Low" -> 2
      [] OTHER -> 3

\* a sort that puts the later of two equally severe risks first
SortReversingTies(all_risks) ==
    LET Rev(q) == [i \in DOMAIN q |-> q[Len(q) + 1 - i]]
        K0(x) == severity_order(x.risk.severity) = 0
        K1(x) == severity_order(x.risk.severity) = 1
        K2(x) == severity_order(x.risk.severity) = 2
        K3(x) == severity_order(x.risk.severity) = 3
    IN Rev(SelectSeq(all_risks, K0)) \o Rev(SelectSeq(all_risks, K1))
       \o Rev(SelectSeq(all_risks, K2)) \o Rev(SelectSeq(all_risks, K3))

\* line 206: list.sort is stable
SortBySeverity(all_risks) ==
    LET K0(x) == severity_order(x.risk.severity) = 0
        K1(x) == severity_order(x.risk.severity) = 1
        K2(x) == severity_order(x.risk.severity) = 2
        K3(x) == severity_order(x.risk.severity) = 3
    IN SelectSeq(all_risks, K0) \o SelectSeq(all_risks, K1)
       \o SelectSeq(all_risks, K2) \o SelectSeq(all_risks, K3)

RECURSIVE RiskLines(_)
RiskLines(rs) ==
    IF Len(rs) = 0 THEN <<>>
    ELSE << "- [" \o rs[1].risk.severity \o "] " \o rs[1].prog_name \o ": "
            \o rs[1].risk.title,
            "  Mitigation: " \o Str(rs[1].risk.mitigation) >>
         \o RiskLines(Tail(rs))

\* lines 196-209
RiskSection(query_lower, progs) ==
    IF ~Contains(query_lower, <<"risk">>) THEN <<>>
    ELSE LET all_risks == FlattenRisks(progs) IN
         IF Len(all_risks) = 0 THEN <<>>
         ELSE <<"\nAll Open Risks (" \o ToString(Len(all_risks)) \o "):">>
              \o RiskLines(SortBySeverity(all_risks))

\* _build_structured_context(query, program_id): [raised, text].
\* faults.by_id / faults.all: the data API fails on that read.
_build_structured_context(query, program_id, store, cfg, faults) ==
    LET query_lower == lower(query)
        scoped == program_id # NONE
        by_id_exc == IF scoped THEN StoreCall(cfg, faults.by_id) ELSE NONE
        focus == IF scoped THEN FocusBlock(get_program_by_id(store, program_id)) ELSE <<>>
        all_exc == StoreCall(cfg, faults.all)
        progs == get_all_programs(store)
        lines == LineSections(query_lower, progs, 1)
        context_parts ==
            focus
            \o StatusSection(query_lower, progs, "At Risk", <<"at", "risk">>, <<"at-risk">>)
            \o StatusSection(query_lower, progs, "Off Track", <<"off", "track">>, <<"off-track">>)
            \o LaunchSection(query_lower, progs)
            \o lines.parts
            \o RiskSection(query_lower, progs)
    IN IF by_id_exc # NONE THEN [raised |-> by_id_exc, text |-> ""]
       ELSE IF all_exc # NONE THEN [raised |-> all_exc, text |-> ""]
       ELSE IF lines.raised # NONE THEN [raised |-> lines.raised, text |-> ""]
       ELSE [raised |-> NONE, text |-> Join(context_parts, "\n")]

\* ------------------------------------------------------- semantic retriever
\* rows of the embeddings table as match_embeddings returns them
\* (metadata written by rag.index_portfolio_data; similarity in hundredths)
RowAlpha == [content |-> "Program: Alpha",
             metadata |-> [type |-> "program", program_id |-> "p1",
                           program_name |-> "Alpha", risk_id |-> NONE,
                           milestone_id |-> NONE],
             similarity |-> 60]
RowRisk == [content |-> "Risk for Alpha: Vendor slip",
            metadata |-> [type |-> "risk", program_id |-> "p1",
                          program_name |-> "Alpha", risk_id |-> "r1",
                          milestone_id |-> NONE],
            similarity |-> 45]
RowGamma == [content |-> "Program: Gamma",
             metadata |-> [type |-> "program", program_id |-> "p3",
                           program_name |-> "Gamma", risk_id |-> NONE,
                           milestone_id |-> NONE],
             similarity |-> 35]

\* what one embedding call + match_embeddings call can do
SearchOutcomes ==
    {[kind |-> "EmbedError", rows |-> <<>>],
     [kind |-> "StoreError", rows |-> <<>>],
     [kind |-> "rows", rows |-> <<>>],
     [kind |-> "rows", rows |-> <<RowAlpha, RowRisk>>],
     [kind |-> "rows", rows |-> <<RowGamma>>]}

NoInfo == "No relevant information found in the portfolio database."

\* what one call of semantic_search meets: kind "rows" is a successful
\* match_embeddings call; the other kinds name the step that raises
\*   CredentialError  _get_openai_key: OPENAI_API_KEY not set
\*   EmbedError       the embeddings request
\*   ClientError      _get_client
\*   StoreError       the match_embeddings call
\*   MalformedRows    a returned row without "content" (KeyError)
SearchFailures ==
    {"CredentialError", "EmbedError", "ClientError", "StoreError", "MalformedRows"}

\* the backend calls made before the step that ends the try block
CallsMade(kind) ==
    CASE kind = "CredentialError" -> <<>>
      [] kind = "EmbedError" -> <<"embeddings">>
      [] kind = "ClientError" -> <<"embeddings">>
      [] OTHER -> <<"embeddings", "match_embeddings">>

\* the try block of semantic_search left without its except clause
SemanticSearchUnguarded(ready, filter_program_id, outcome) ==
    IF ~ready THEN [result |-> <<>>, raised |-> NONE, calls |-> <<>>]
    ELSE [result |-> <<>>,
          raised |-> IF outcome.kind # "rows" THEN outcome.kind ELSE NONE,
          calls |-> CallsMade(outcome.kind)]

\* rag.semantic_search(query, n_results=5, filter_program_id): what it
\* returns, what it raises and which backend calls it made
SemanticSearchRun(ready, filter_program_id, outcome) ==
    IF ~ready THEN [result |-> <<>>, raised |-> NONE, calls |-> <<>>]
    ELSE IF outcome.kind # "rows"
    THEN [result |-> <<>>, raised |-> NONE, calls |-> CallsMade(outcome.kind)]
    ELSE LET Keep(r) == filter_program_id = NONE
                        \/ r.metadata.program_id = filter_program_id
             results == SelectSeq(outcome.rows, Keep)
         IN [result |-> [i \in DOMAIN results |->
                           [content |-> results[i].content,
                            metadata |-> results[i].metadata,
                            relevance_score |-> results[i].similarity]],
             raised |-> NONE,
             calls |-> CallsMade(outcome.kind)]

semantic_search(ready, filter_program_id, outcome) ==
    SemanticSearchRun(ready, filter_program_id, outcome).result

\* f"{x:.2f}" of a score given in hundredths
Fmt2(h) == ToString(h \div 100) \o "." \o ToString((h % 100) \div 10) \o ToString(h % 10)

RECURSIVE DocumentBlocks(_, _)
DocumentBlocks(results, i) ==
    IF i > Len(results) THEN <<>>
    ELSE LET relevance == IF results[i].relevance_score # 0
                          THEN Fmt2(results[i].relevance_score) ELSE "N/A"
         IN <<"--- Document " \o ToString(i) \o " (relevance: " \o relevance
              \o ") ---\n" \o results[i].content>>
            \o DocumentBlocks(results, i + 1)

\* rag.get_context_for_query(query, n_results=5, program_id)
get_context_for_query(ready, program_id, outcome) ==
    LET results == semantic_search(ready, program_id, outcome) IN
    IF Len(results) = 0 THEN NoInfo
    ELSE Join(DocumentBlocks(results, 1), "\n\n")

\* --------------------------------------------------- sources and confidence
SourceOf(result) ==
    LET metadata == result.metadata
        doc_type == IF metadata.type = NONE THEN "program" ELSE metadata.type
        name(default) == IF metadata.program_name = NONE THEN default
                         ELSE metadata.program_name
        Id(x) == IF x = NONE THEN "" ELSE x
    IN CASE doc_type = "program" ->
              [type |-> doc_type, id |-> Id(metadata.program_id),
               title |-> name("Unknown Program")]
         [] doc_type = "risk" ->
              [type |-> doc_type, id |-> Id(metadata.risk_id),
               title |-> "Risk: " \o name("Unknown")]
         [] doc_type = "milestone" ->
              [type |-> doc_type, id |-> Id(metadata.milestone_id),
               title |-> "Milestone: " \o name("Unknown")]
         [] OTHER ->
              [type |-> doc_type, id |-> Id(metadata.program_id),
               title |-> name("Unknown")]

RECURSIVE ExtractFrom(_, _)
ExtractFrom(search_results, seen) ==
    IF Len(search_results) = 0 THEN <<>>
    ELSE LET src == SourceOf(search_results[1]) IN
         IF src.id # "" /\ src.id \notin seen
         THEN <<src>> \o ExtractFrom(Tail(search_results), seen \cup {src.id})
         ELSE ExtractFrom(Tail(search_results), seen)

\* every result with an id becomes a Source, seen before or not
ExtractWithoutSeen(search_results) ==
    LET all == [i \in DOMAIN search_results |-> SourceOf(search_results[i])]
    IN SelectSeq(all, LAMBDA src : src.id # "")

_extract_sources_from_search(search_results) == ExtractFrom(search_results, {})

Relevances(search_results) ==
    [i \in DOMAIN search_results |-> search_results[i].relevance_score]

\* the rule as section 4.5 step 5 of the design states it: the structured
\* length rule only when there are no semantic results
ConfidenceByRelevanceAlone(search_results, structured_context) ==
    LET n == Len(search_results)
        total == SeqSum(Relevances(search_results))
    IN IF n = 0 /\ structured_context = "" THEN "low"
       ELSE IF n > 0 THEN (IF total > 50 * n THEN "high" ELSE "medium")
       ELSE IF Len(structured_context) > 100 THEN "high"
       ELSE "medium"

\* avg_relevance > 0.5 is total > 50 * n in hundredths
_determine_confidence(search_results, structured_context) ==
    LET n == Len(search_results)
        total == SeqSum(Relevances(search_results))
    IN IF n = 0 /\ structured_context = "" THEN "low"
       ELSE IF n > 0 /\ total > 50 * n THEN "high"
       ELSE IF n > 0 /\ total > 20 * n THEN "medium"
       ELSE IF structured_context # "" /\ Len(structured_context) > 100 THEN "high"
       ELSE "medium"

CombineDroppingStructured(semantic_context, structured_context) ==
    IF semantic_context # "" THEN semantic_context
    ELSE structured_context

\* query_handler.py lines 270-279 (and 332-341)
CombineContexts(semantic_context, structured_context) ==
    IF semantic_context # "" /\ structured_context # ""
    THEN "=== Semantic Search Results ===\n" \o semantic_context
         \o "\n\n=== Structured Data ===\n" \o structured_context
    ELSE IF semantic_context # "" THEN semantic_context
    ELSE IF structured_context # "" THEN structured_context
    ELSE NoInfo

\* ------------------------------------------------- prompts and the provider
CLAUDE_SYSTEM_PROMPT == "You are an AI assistant ... in <context> tags."
OPENAI_SYSTEM_PROMPT == "You are an AI assistant ... conversationally."

get_system_prompt(provider) ==
    IF provider = "claude" THEN CLAUDE_SYSTEM_PROMPT ELSE OPENAI_SYSTEM_PROMPT

QueryText(query) == Join(query, " ")

\* build_chat_messages written with the new turn appended to the caller's
\* list in place
BuildChatAppendingInPlace(user_query, context, history, provider) ==
    LET extended == Append(history, [role |-> "user", content |-> QueryText(user_query)])
    IN [messages |-> <<[role |-> "system", content |-> get_system_prompt(provider)]>>
                     \o extended,
        history |-> extended]

\* prompts.build_chat_messages: the list it returns and the caller's history
\* list after the call (extend and append act on the new list)
BuildChatRun(user_query, context, history, provider) ==
    [messages |-> <<[role |-> "system", content |-> get_system_prompt(provider)]>>
                  \o history
                  \o <<[role |-> "user", content |-> QueryText(user_query)]>>,
     history |-> history]

build_chat_messages(user_query, context, history, provider) ==
    BuildChatRun(user_query, context, history, provider).messages

\* llm_provider.get_llm_provider: ValueError for an unsupported name or a
\* missing API key
get_llm_provider(cfg) ==
    IF cfg.provider \notin {"claude", "openai"} THEN "ConfigError"
    ELSE IF ~cfg.api_key THEN "ConfigError"
    ELSE NONE

\* ClaudeProvider._format_messages wraps a user turn in these delimiters
ClaudeWrap(context, content) ==
    "<context>\n" \o context \o "\n</context>\n\n<user_query>\n" \o content
    \o "\n</user_query>\n\nPlease answer the user's query based on the provided context. If the context doesn't contain relevant information, say so clearly."

\* ClaudeProvider._format_messages: system entries are skipped; a user turn
\* is wrapped when the context is non-empty and nothing was formatted yet
RECURSIVE ClaudeFormatFrom(_, _, _)
ClaudeFormatFrom(messages, context, formatted_messages) ==
    IF Len(messages) = 0 THEN formatted_messages
    ELSE LET msg == messages[1] IN
         IF msg.role = "system"
         THEN ClaudeFormatFrom(Tail(messages), context, formatted_messages)
         ELSE LET content ==
                      IF msg.role = "user" /\ context # ""
                         /\ Len(formatted_messages) = 0
                      THEN ClaudeWrap(context, msg.content)
                      ELSE msg.content
              IN ClaudeFormatFrom(Tail(messages), context,
                     Append(formatted_messages,
                            [role |-> msg.role, content |-> content]))

ClaudeFormatMessages(messages, context) == ClaudeFormatFrom(messages, context, <<>>)

DEFAULT_SYSTEM_PROMPT == "You are a helpful AI assistant for program portfolio management."

\* ClaudeProvider._get_system_prompt: the first system entry, else a default
ClaudeSystemPrompt(messages) ==
    LET systems == SelectSeq(messages, LAMBDA m : m.role = "system")
    IN IF Len(systems) > 0 THEN systems[1].content ELSE DEFAULT_SYSTEM_PROMPT

\* OpenAIProvider._format_messages labels the context ahead of the query
OpenAIWrap(context, content) ==
    "Context:\n" \o context \o "\n\nUser Query:\n" \o content
    \o "\n\nPlease answer the user's query based on the provided context. If the context doesn't contain relevant information, say so clearly."

\* OpenAIProvider._format_messages: the turn at 0-based position
\* len(non-system messages) - 1 of the whole list is the one wrapped, when
\* it is a user turn; i below is 1-based
OpenAIFormatMessages(messages, context) ==
    LET non_system == SelectSeq(messages, LAMBDA m : m.role # "system")
    IN [i \in DOMAIN messages |->
          LET msg == messages[i] IN
          [role |-> msg.role,
           content |-> IF msg.role = "user" /\ context # ""
                          /\ i - 1 = Len(non_system) - 1
                       THEN OpenAIWrap(context, msg.content)
                       ELSE msg.content]]

ApologyText == "I encountered an error while processing your question. Please try again."

\* ------------------------------------------------------------- orchestrator
\* One call of process_query / process_query_stream: its locals, what it
\* handed to the provider, what it yielded and how it ended.
\*   result: <<>> (nothing returned) or <<QueryResult>>
\*   caller_history: the list object the caller passed as history, as the
\*           caller sees it (history is the local of line 249 / 312)
\*   events: the tuples yielded so far, [token, result] with result as above
\*   reads:  the values of the readiness flag the call has read
\*   chunks: the chunks the provider's stream has delivered
\*   llm_error: the exception caught by the try block around generation
\*   raised: the exception that escaped the call
IdleCall ==
    [mode |-> "", pc |-> "idle", query |-> <<>>, history |-> <<>>,
     caller_history |-> <<>>,
     program_id |-> NONE, provider_name |-> "", query_type |-> "",
     reads |-> <<>>, sem_ran |-> FALSE, struct_ran |-> FALSE,
     search_results |-> <<>>, semantic_context |-> "", structured_context |-> "",
     combined_context |-> "", sources |-> <<>>, confidence |-> "",
     llm_called |-> FALSE, llm_messages |-> <<>>, llm_context |-> "",
     chunks |-> <<>>, full_answer |-> "", events |-> <<>>, result |-> <<>>,
     llm_error |-> NONE, raised |-> NONE]

QueryResult(answer, sources, confidence) ==
    [answer |-> answer, sources |-> sources, confidence |-> confidence]

\* lines 249-259 / 312-321
DoStart(mode, query, history, program_id, cfg) ==
    [IdleCall EXCEPT !.mode = mode, !.pc = "retrieve", !.query = query,
                     !.history = history, !.caller_history = history,
                     !.program_id = program_id,
                     !.provider_name = cfg.provider,
                     !.query_type = _detect_query_type(query)]

\* line 261 / 323: query_type in ("semantic", "hybrid") and is_rag_ready()
DoCheckReady(c, flag) ==
    IF c.query_type \in {"semantic", "hybrid"} /\ flag
    THEN [c EXCEPT !.pc = "search", !.reads = Append(@, flag)]
    ELSE IF c.query_type \in {"semantic", "hybrid"}
    THEN [c EXCEPT !.pc = "elif", !.reads = Append(@, flag)]
    ELSE [c EXCEPT !.pc = "structured"]

\* line 262 / 324
DoSearch(c, flag, outcome) ==
    [c EXCEPT !.pc = "context", !.sem_ran = TRUE, !.reads = Append(@, flag),
              !.search_results = semantic_search(flag, c.program_id, outcome)]

\* line 263 / 325
DoContext(c, flag, outcome) ==
    [c EXCEPT !.pc = "structured", !.reads = Append(@, flag),
              !.semantic_context = get_context_for_query(flag, c.program_id, outcome)]

\* line 264 / 326: the elif reads the flag again, only to log a warning
DoElif(c, flag) ==
    [c EXCEPT !.pc = "structured", !.reads = Append(@, flag)]

StructuredOnlyWhenHybrid(c, flag, store, cfg, faults) ==
    LET typed == c.query_type \in {"structured", "hybrid"}
        built == IF typed
                 THEN _build_structured_context(c.query, c.program_id, store, cfg, faults)
                 ELSE [raised |-> NONE, text |-> ""]
        c1 == [c EXCEPT !.struct_ran = typed]
    IN IF built.raised # NONE
       THEN [c1 EXCEPT !.pc = "raised", !.raised = built.raised]
       ELSE [c1 EXCEPT
               !.pc = IF c.mode = "query" THEN "generate" ELSE "open",
               !.structured_context = built.text,
               !.combined_context = CombineContexts(c.semantic_context, built.text),
               !.sources = _extract_sources_from_search(c.search_results),
               !.confidence = _determine_confidence(c.search_results, built.text)]

\* lines 267-285 / 329-345: the flag is read only when the first operand of
\* `or` is false
DoStructured(c, flag, store, cfg, faults) ==
    LET typed == c.query_type \in {"structured", "hybrid"}
        runs == typed \/ ~flag
        built == IF runs
                 THEN _build_structured_context(c.query, c.program_id, store, cfg, faults)
                 ELSE [raised |-> NONE, text |-> ""]
        c1 == [c EXCEPT !.reads = IF typed THEN @ ELSE Append(@, flag),
                        !.struct_ran = runs]
    IN IF built.raised # NONE
       THEN [c1 EXCEPT !.pc = "raised", !.raised = built.raised]
       ELSE [c1 EXCEPT
               !.pc = IF c.mode = "query" THEN "generate" ELSE "open",
               !.structured_context = built.text,
               !.combined_context = CombineContexts(c.semantic_context, built.text),
               !.sources = _extract_sources_from_search(c.search_results),
               !.confidence = _determine_confidence(c.search_results, built.text)]

\* line 249 / 312, history = history or []: an empty (or missing) list of
\* the caller is replaced by a fresh one, otherwise the local is the
\* caller's list and the caller sees what is done to it
CallerSees(c, history_after) ==
    IF c.caller_history = <<>> THEN <<>> ELSE history_after

GenerateKeepingConfidence(c, cfg, chunks, fails) ==
    IF get_llm_provider(cfg) # NONE \/ fails
    THEN [c EXCEPT !.pc = "returned",
                   !.llm_error = IF fails THEN "ProviderError" ELSE "ConfigError",
                   !.result = <<QueryResult(ApologyText, c.sources, c.confidence)>>]
    ELSE [c EXCEPT !.pc = "returned", !.llm_called = TRUE,
                   !.llm_context = c.combined_context,
                   !.llm_messages = build_chat_messages(c.query, c.combined_context,
                                                        c.history, c.provider_name),
                   !.result = <<QueryResult(ConcatAll(chunks), c.sources, c.confidence)>>]

\* lines 288-297: chunks is the text the backend produces, fails says
\* whether llm.generate raises
DoGenerate(c, cfg, chunks, fails) ==
    IF get_llm_provider(cfg) # NONE
    THEN [c EXCEPT !.pc = "returned", !.llm_error = get_llm_provider(cfg),
                   !.result = <<QueryResult(ApologyText, c.sources, "low")>>]
    ELSE LET built == BuildChatRun(c.query, c.combined_context,
                                   c.history, c.provider_name)
             c1 == [c EXCEPT !.llm_called = TRUE,
                             !.llm_context = c.combined_context,
                             !.llm_messages = built.messages,
                             !.caller_history = CallerSees(c, built.history)]
         IN IF fails
            THEN [c1 EXCEPT !.pc = "returned", !.llm_error = "ProviderError",
                            !.result = <<QueryResult(ApologyText, c.sources, "low")>>]
            ELSE [c1 EXCEPT !.pc = "returned",
                            !.result = <<QueryResult(ConcatAll(chunks), c.sources,
                                                     c.confidence)>>]

Event(token, result) == [token |-> token, result |-> result]

\* lines 357-361: the except branch up to its yield
DoStreamFail(c, exc) ==
    [c EXCEPT !.pc = "failed", !.llm_error = exc, !.full_answer = ApologyText,
              !.events = Append(@, Event(ApologyText, <<>>))]

\* lines 348-353 up to the first chunk: provider construction, the messages
DoStreamOpen(c, cfg) ==
    IF get_llm_provider(cfg) # NONE THEN DoStreamFail(c, get_llm_provider(cfg))
    ELSE LET built == BuildChatRun(c.query, c.combined_context,
                                   c.history, c.provider_name)
         IN [c EXCEPT !.pc = "streaming", !.llm_called = TRUE,
                      !.llm_context = c.combined_context,
                      !.llm_messages = built.messages,
                      !.caller_history = CallerSees(c, built.history)]

StreamTokenOverwriting(c, token) ==
    [c EXCEPT !.chunks = Append(@, token), !.full_answer = token,
              !.events = Append(@, Event(token, <<>>))]

\* lines 353-355: one chunk arrives and is yielded
DoStreamToken(c, token) ==
    [c EXCEPT !.chunks = Append(@, token), !.full_answer = @ \o token,
              !.events = Append(@, Event(token, <<>>))]

FinalKeepingConfidence(c) ==
    LET result == QueryResult(c.full_answer, c.sources, c.confidence)
    IN [c EXCEPT !.pc = "returned", !.result = <<result>>,
                 !.events = Append(@, Event("", <<result>>))]

FinalWithoutResult(c) ==
    IF c.pc = "failed" THEN [c EXCEPT !.pc = "returned", !.confidence = "low"]
    ELSE LET result == QueryResult(c.full_answer, c.sources, c.confidence)
         IN [c EXCEPT !.pc = "returned", !.result = <<result>>,
                      !.events = Append(@, Event("", <<result>>))]

\* lines 362-366 after a failure: confidence forced to low, the final tuple
\* lines 365-366 after the stream ended: the final tuple
DoStreamFinal(c) ==
    LET confidence == IF c.pc = "failed" THEN "low" ELSE c.confidence
        result == QueryResult(c.full_answer, c.sources, confidence)
    IN [c EXCEPT !.pc = "returned", !.confidence = confidence,
                 !.result = <<result>>,
                 !.events = Append(@, Event("", <<result>>))]

\* ------------------------------------------ insight and summary generation
PROACTIVE_INSIGHT_PROMPT == "Based on the current portfolio state ... what action to take."
SUMMARY_PROMPT == "Generate a structured portfolio summary ... from the database context."

InsightFallback == "Unable to generate insight at this time."
SummaryFallback == "Unable to generate summary at this time."

\* status_counts: the statuses in first-seen order with their counts
RECURSIVE StatusCounts(_, _)
StatusCounts(progs, counted) ==
    IF Len(progs) = 0 THEN counted
    ELSE LET status == progs[1].status
             at == {i \in DOMAIN counted : counted[i].status = status}
         IN StatusCounts(Tail(progs),
                IF at = {}
                THEN Append(counted, [status |-> status, count |-> 1])
                ELSE [i \in DOMAIN counted |->
                        IF i \in at THEN [counted[i] EXCEPT !.count = @ + 1]
                        ELSE counted[i]])

\* lines 392-394
InsightSummary(progs) ==
    LET counts == StatusCounts(progs, <<>>) IN
    "\nPortfolio Summary: " \o ToString(Len(progs)) \o " total programs\n"
    \o ConcatAll([i \in DOMAIN counts |->
                    "- " \o counts[i].status \o ": " \o ToString(counts[i].count) \o "\n"])

\* lines 430-463
SummaryParts(progs) ==
    LET counts == StatusCounts(progs, <<>>)
        at_risk == SelectSeq(progs, LAMBDA p : p.status \in {"At Risk", "Off Track"})
        launching_soon == SelectSeq(progs, LAMBDA p : p.launch_date # NONE
                                         /\ DateStartsWith(p.launch_date, "2026-02-0"))
        all_risks == FlattenRisks(progs)
        high_risks == SelectSeq(all_risks, LAMBDA x : x.risk.severity = "High"
                                                     /\ x.risk.status = "Open")
    IN <<"Status Breakdown:">>
       \o [i \in DOMAIN counts |->
             "- " \o counts[i].status \o ": " \o ToString(counts[i].count) \o " programs"]
       \o (IF Len(at_risk) = 0 THEN <<>>
           ELSE <<"\nPrograms Needing Attention:">>
                \o [i \in DOMAIN at_risk |->
                      "- " \o at_risk[i].name \o " (" \o at_risk[i].status \o "): "
                      \o Str(at_risk[i].last_update)])
       \o (IF Len(launching_soon) = 0 THEN <<>>
           ELSE <<"\nLaunching This Week:">>
                \o [i \in DOMAIN launching_soon |->
                      "- " \o launching_soon[i].name \o ": " \o launching_soon[i].launch_date])
       \o (IF Len(high_risks) = 0 THEN <<>>
           ELSE <<"\nCritical Risks:">>
                \o [i \in DOMAIN high_risks |->
                      "- " \o high_risks[i].prog_name \o ": " \o high_risks[i].risk.title])

\* the try block shared by both functions (lines 398-413, 465-480):
\* provider construction, the two messages, llm.generate
GenerateOrFallback(cfg, combined_context, prompt, fallback, answer, fails) ==
    IF get_llm_provider(cfg) # NONE \/ fails
    THEN [raised |-> NONE, llm_called |-> get_llm_provider(cfg) = NONE,
          llm_context |-> IF get_llm_provider(cfg) = NONE THEN combined_context ELSE "",
          result |-> <<QueryResult(fallback, <<>>, "low")>>]
    ELSE [raised |-> NONE, llm_called |-> TRUE, llm_context |-> combined_context,
          result |-> <<QueryResult(answer, <<>>, "high")>>]

Escaped(exc) == [raised |-> exc, llm_called |-> FALSE, llm_context |-> "", result |-> <<>>]

\* both functions with the result built as confidence "high" in the except
\* branch as well
InsightHighOnFailure(ready, outcome, store, cfg, fault, answer, fails) ==
    IF StoreCall(cfg, fault) # NONE THEN Escaped(StoreCall(cfg, fault))
    ELSE [GenerateOrFallback(cfg, "", PROACTIVE_INSIGHT_PROMPT, InsightFallback,
                             answer, fails)
            EXCEPT !.result = <<[@[1] EXCEPT !.confidence = "high"]>>]

\* generate_proactive_insight()
generate_proactive_insight(ready, outcome, store, cfg, fault, answer, fails) ==
    LET context == IF ready THEN get_context_for_query(ready, NONE, outcome) ELSE "" IN
    IF StoreCall(cfg, fault) # NONE THEN Escaped(StoreCall(cfg, fault))
    ELSE GenerateOrFallback(cfg, context \o InsightSummary(get_all_programs(store)),
                            PROACTIVE_INSIGHT_PROMPT, InsightFallback, answer, fails)

\* generate_portfolio_summary()
generate_portfolio_summary(ready, outcome, store, cfg, fault, answer, fails) ==
    IF StoreCall(cfg, fault) # NONE THEN Escaped(StoreCall(cfg, fault))
    ELSE GenerateOrFallback(cfg, Join(SummaryParts(get_all_programs(store)), "\n"),
                            SUMMARY_PROMPT, SummaryFallback, answer, fails)

\* ------------------------------------------------------ indexing pipeline
\* The embeddings table of the organization is a set of rows; a row keeps
\* the entity it documents and the rebuild that wrote it ("before": a row
\* present before any rebuild of the run).
IndexRow(doc, by) == [type |-> doc.type, id |-> doc.id, by |-> by]

\* index_portfolio_data lines 133-170: per program its document, then its
\* risks, then its milestones
RECURSIVE Documents(_)
Documents(progs) ==
    IF Len(progs) = 0 THEN <<>>
    ELSE LET program == progs[1] IN
         <<[type |-> "program", id |-> program.id]>>
         \o [i \in DOMAIN program.risks |->
               [type |-> "risk", id |-> program.risks[i].id]]
         \o [i \in DOMAIN program.milestones |->
               [type |-> "milestone", id |-> program.milestones[i].id]]
         \o Documents(Tail(progs))

\* rows are inserted in batches of 100
batch_size == 100

\* one call of index_portfolio_data: where it is, the documents it built,
\* how many rows it has inserted, whether its clear succeeded, how it ended
IdleBuild == [pc |-> "idle", documents |-> <<>>, inserted |-> 0,
              cleared |-> FALSE, result |-> 0, raised |-> NONE]

Finished(b) == b.pc \in {"returned", "raised"}
Running(b) == b.pc \notin {"idle", "returned", "raised"}

Raise(b, exc) == [b EXCEPT !.pc = "raised", !.raised = exc]

\* line 119-120: _get_client(), _get_org_id()
DoClient(b, ok) ==
    IF ok THEN [b EXCEPT !.pc = "clear"] ELSE Raise(b, "ClientError")

\* lines 122-127: delete every row of the organization; a failure is logged
\* and the rebuild goes on
DoClear(b, idx, ok) ==
    IF ok THEN [build |-> [b EXCEPT !.pc = "fetch", !.cleared = TRUE], index |-> {}]
    ELSE [build |-> [b EXCEPT !.pc = "fetch"], index |-> idx]

\* lines 129-174: read the entities and render the documents; nothing to
\* index returns 0
DoFetch(b, store, cfg, fault) ==
    LET exc == StoreCall(cfg, fault) IN
    IF exc # NONE THEN Raise(b, exc)
    ELSE LET documents == Documents(get_all_programs(store)) IN
         IF Len(documents) = 0
         THEN [b EXCEPT !.pc = "returned", !.result = 0]
         ELSE [b EXCEPT !.pc = "embed", !.documents = documents]

\* lines 176-178: _embed_texts(documents)
DoEmbed(b, ok) ==
    IF ok THEN [b EXCEPT !.pc = "insert"] ELSE Raise(b, "EmbedError")

Min(a, b) == IF a < b THEN a ELSE b

\* lines 190-199: one batch insert; after the last batch return len(documents)
DoInsert(b, idx, who, ok) ==
    IF ~ok THEN [build |-> Raise(b, "StoreError"), index |-> idx]
    ELSE LET upto == Min(b.inserted + batch_size, Len(b.documents))
             batch == {IndexRow(b.documents[i], who) : i \in (b.inserted + 1)..upto}
             more == upto < Len(b.documents)
         IN [build |-> IF more THEN [b EXCEPT !.inserted = upto]
                       ELSE [b EXCEPT !.inserted = upto, !.pc = "returned",
                                      !.result = Len(b.documents)],
             index |-> idx \cup batch]

\* the callers of index_portfolio_data: the worker thread of this process's
\* startup and one caller outside it (the startup of a second process)
Builders == {"startup", "other"}
NoBuilds == [b \in Builders |-> IdleBuild]

\* ----------------------------------------------------------------- startup
\* main.startup_event / init_rag_with_timeout of this process
\*   pc: init, check, waiting, exiting (leaving the with block of the
\*       executor), serving
\*   outcome: how the bounded wait ended
\*   existing: what _check_existing_embeddings returned (-1: not yet called)
NoStartup == [pc |-> "init", existing |-> -1, outcome |-> NONE, doc_count |-> 0]

\* main._check_existing_embeddings: at most one row is fetched (limit 1)
check_existing_embeddings(idx) == IF idx = {} THEN 0 ELSE 1

\* init_rag_with_timeout lines 82-86 and startup_event lines 121-123: the
\* check raises (the handler sets the flag false), finds rows (the flag is
\* set true) or finds none (the build is submitted to the executor)
DoCheckExisting(st, ready, idx, exc) ==
    IF exc # NONE
    THEN [startup |-> [st EXCEPT !.pc = "serving", !.outcome = "check_failed"],
          ready |-> FALSE, submit |-> FALSE]
    ELSE LET existing == check_existing_embeddings(idx) IN
         IF existing > 0
         THEN [startup |-> [st EXCEPT !.pc = "serving", !.existing = existing,
                                      !.outcome = "existing",
                                      !.doc_count = existing],
               ready |-> TRUE, submit |-> FALSE]
         ELSE [startup |-> [st EXCEPT !.pc = "waiting", !.existing = existing],
               ready |-> ready, submit |-> TRUE]

\* the bounded wait of lines 90-101 with the flag set true in every branch
WaitEndAlwaysReady(st, build, timed_out) ==
    [startup |-> [st EXCEPT !.pc = "exiting",
                            !.outcome = IF timed_out THEN "timeout"
                                        ELSE IF build.pc = "returned" THEN "built"
                                        ELSE "raised",
                            !.doc_count = IF ~timed_out /\ build.pc = "returned"
                                          THEN build.result ELSE 0],
     ready |-> TRUE]

\* init_rag_with_timeout lines 90-101: future.result(timeout) returns the
\* count (flag true), raises TimeoutError (flag false, 0) or raises what the
\* build raised (flag false, 0)
DoWaitEnd(st, build, timed_out) ==
    IF timed_out
    THEN [startup |-> [st EXCEPT !.pc = "exiting", !.outcome = "timeout",
                                 !.doc_count = 0],
          ready |-> FALSE]
    ELSE IF build.pc = "returned"
    THEN [startup |-> [st EXCEPT !.pc = "exiting", !.outcome = "built",
                                 !.doc_count = build.result],
          ready |-> TRUE]
    ELSE [startup |-> [st EXCEPT !.pc = "exiting", !.outcome = "raised",
                                 !.doc_count = 0],
          ready |-> FALSE]

\* ------------------------------------------------- the serving event loop
\* api/agent.py: the requests of one process run as tasks of one event
\* loop.  A task holds the loop from the moment it is resumed until it
\* awaits; owner is the task holding it (NONE: the loop is free).
\*   pc of a request: none (not arrived), pending (waiting for the loop),
\*     retrieving (inside process_query_stream before the first chunk: the
\*     synchronous retrieval calls), awaiting_chunk (inside the provider's
\*     synchronous stream, waiting for the next chunk), sleeping (in
\*     await asyncio.sleep after a token event), done
\*   received: the chunks the request has got so far
Chats == {"chat1", "chat2"}
Requests == Chats \cup {"health"}

NoLoop == [owner |-> NONE,
           pc |-> [r \in Requests |-> "none"],
           received |-> [r \in Requests |-> 0]]

\* the task is inside a synchronous call that waits for a backend
BlockedOnBackend(l, r) == l.pc[r] \in {"retrieving", "awaiting_chunk"}

\* the loop resumes generate_stream: "for token, result in
\* process_query_stream(...)" calls next() on the synchronous generator,
\* which runs the retrieval and the provider call on the loop's thread
DoResumeChat(l, r) ==
    [l EXCEPT !.owner = r,
              !.pc[r] = IF l.pc[r] = "pending" THEN "retrieving" ELSE "awaiting_chunk"]

\* a chunk arrives: the token event is yielded and the task awaits
\* asyncio.sleep(0.01), which gives the loop back
DoChunk(l, r) ==
    [l EXCEPT !.owner = NONE, !.pc[r] = "sleeping", !.received[r] = @ + 1]

\* the provider's stream ends: the done event is yielded and the task ends
DoStreamEnd(l, r) ==
    [l EXCEPT !.owner = NONE, !.pc[r] = "done"]

\* ------------------------------------------------- the Linear sync engine
\* integrations/sync_engine.py.  The tracker holds initiatives and projects;
\* a project has a status name and the initiatives it belongs to.  The
\* entity store holds strategic_objectives, programs and the link table
\* program_strategic_objectives (pairs <<program id, objective id>>).
Projects == {"projA", "projB"}
Initiatives == {"init1", "init2"}
ProjectStatuses == {"In Progress", "Canceled"}
SKIP_STATUSES == {"Canceled"}

\* ids the entity store gives to the rows made for a tracker object
SoId(initiative) == "so-" \o initiative
ProgramId(project) == "prog-" \o project

\* fetch_projects returns the projects in the tracker's order
ProjectOrder == <<"projA", "projB">>

EmptyTracker == [initiatives |-> {},
                 status |-> [p \in Projects |-> "In Progress"],
                 member |-> [p \in Projects |-> {}]]

\*   pc: idle, objectives, programs, finish, completed, raised
\*   fetched: what Linear held when this sync fetched it
\*   todo: the projects the loop of step 3b has still to visit
\*   synced: the projects this sync has upserted as programs
\*   warned: a link write of this sync failed and was swallowed
NoLinear == [pc |-> "idle", fetched |-> EmptyTracker,
             initiative_id_map |-> <<>>, todo |-> <<>>,
             strategic_objectives |-> {}, programs_table |-> {}, links |-> {},
             synced |-> {}, warned |-> FALSE]

\* sync_linear steps 1 and 2: load the integration config, fetch the
\* initiatives and the projects, store the raw records; any of the calls
\* may raise; tracker is what Linear holds at that moment
DoFetchLinear(l, tracker, ok) ==
    IF ~ok THEN [l EXCEPT !.pc = "raised", !.synced = {}, !.warned = FALSE]
    ELSE [l EXCEPT !.pc = "objectives", !.fetched = tracker,
                   !.initiative_id_map = <<>>, !.todo = <<>>,
                   !.synced = {}, !.warned = FALSE]

\* step 3a: _upsert_strategic_objective for every fetched initiative;
\* upserted are the initiatives reached before a call raised (all of them
\* when none did)
DoSyncObjectives(l, upserted) ==
    LET after == [l EXCEPT !.strategic_objectives = @ \cup {SoId(i) : i \in upserted}] IN
    IF upserted # l.fetched.initiatives THEN [after EXCEPT !.pc = "raised"]
    ELSE [after EXCEPT !.pc = "programs",
                       !.initiative_id_map = [i \in upserted |-> SoId(i)],
                       !.todo = ProjectOrder]

_extract_initiative_ids(tracker, project) == tracker.member[project]

\* _upsert_program(project, initiative_id_map): the program row is found or
\* created; the links of the program are rewritten only when so_ids is not
\* empty, and a failure of the delete or of the insert is swallowed
_upsert_program(l, project, delete_fails, post_fails) ==
    LET program_id == ProgramId(project)
        linear_initiative_ids == _extract_initiative_ids(l.fetched, project)
        so_ids == {l.initiative_id_map[lid] :
                      lid \in linear_initiative_ids \cap DOMAIN l.initiative_id_map}
        kept == IF delete_fails THEN l.links
                ELSE {m \in l.links : m[1] # program_id}
        mappings == {<<program_id, so_id>> : so_id \in so_ids}
    IN [l EXCEPT !.programs_table = @ \cup {program_id},
                 !.synced = @ \cup {project},
                 !.links = IF so_ids = {} THEN @
                           ELSE IF post_fails THEN kept
                           ELSE kept \cup mappings,
                 !.warned = @ \/ (so_ids # {} /\ (delete_fails \/ post_fails))]

\* step 3b, one turn of "for proj in projects": a canceled project is
\* skipped; a read or write of the programs or milestones table may raise
DoProject(l, http_fails, delete_fails, post_fails) ==
    LET proj == Head(l.todo)
        next == [l EXCEPT !.todo = Tail(@),
                          !.pc = IF Len(l.todo) = 1 THEN "finish" ELSE @]
    IN IF l.fetched.status[proj] \in SKIP_STATUSES THEN next
       ELSE IF http_fails THEN [l EXCEPT !.pc = "raised"]
       ELSE _upsert_program(next, proj, delete_fails, post_fails)

\* steps 4 and 5: last_sync_at and data_source are patched, the counts are
\* returned
DoFinishSync(l, ok) ==
    [l EXCEPT !.pc = IF ok THEN "completed" ELSE "raised"]

\* the objectives linked to a program in the link table
LinkedObjectives(l, project) ==
    {m[2] : m \in {x \in l.links : x[1] = ProgramId(project)}}

\* ------------------------------------------------------------------ inputs
Queries ==
    {<<"How", "many", "at", "risk">>,
     <<"Summarize", "risks", "in", "mobile">>,
     <<"hello">>,
     <<"explain", "launch">>,
     <<"list", "all", "platform">>}

Histories ==
    {<<>>,
     <<[role |-> "user", content |-> "hi"],
       [role |-> "assistant", content |-> "Hello, how can I help?"]>>}

ProgramIds == {NONE, "p1"}

Tokens == {"a", "b"}

\* LLM_PROVIDER and the credentials of the process environment
Configs ==
    {[provider |-> "claude", api_key |-> TRUE, supabase |-> TRUE],
     [provider |-> "openai", api_key |-> TRUE, supabase |-> TRUE],
     [provider |-> "claude", api_key |-> FALSE, supabase |-> TRUE],
     [provider |-> "gemini", api_key |-> TRUE, supabase |-> TRUE],
     [provider |-> "claude", api_key |-> TRUE, supabase |-> FALSE]}

StoreFaults == {[by_id |-> FALSE, all |-> FALSE],
                [by_id |-> TRUE, all |-> FALSE],
                [by_id |-> FALSE, all |-> TRUE]}

InFlight == call.pc \notin {"idle", "returned", "raised"}

NoFn == [kind |-> "none"]
NoEnv == [query |-> <<>>]

\* ----------------------------------------------------------------- actions
Init ==
    /\ rag_ready = FALSE
    /\ programs \in Stores
    /\ config \in Configs
    /\ call = IdleCall
    /\ flag_changed = FALSE
    /\ fn_in = NoFn
    /\ fn_out = ""
    /\ eq_env = NoEnv
    /\ eq_sync = IdleCall
    /\ eq_stream = IdleCall
    /\ index = {}
    /\ builds = NoBuilds
    /\ startup = NoStartup
    /\ loop = NoLoop
    /\ linear = NoLinear

Frame == UNCHANGED <<programs, config, fn_in, fn_out, eq_env, eq_sync, eq_stream,
                     index, builds, startup, loop, linear>>

\* rag.set_rag_ready(ready)
set_rag_ready ==
    \E ready \in BOOLEAN :
        /\ rag_ready' = ready
        /\ flag_changed' = (flag_changed \/ (InFlight /\ ready # rag_ready))
        /\ UNCHANGED call
        /\ Frame

Start ==
    /\ call.pc = "idle"
    /\ \E mode \in {"query", "stream"}, query \in Queries,
          history \in Histories, program_id \in ProgramIds :
            call' = DoStart(mode, query, history, program_id, config)
    /\ flag_changed' = FALSE
    /\ UNCHANGED rag_ready
    /\ Frame

CheckReady ==
    /\ call.pc = "retrieve"
    /\ call' = DoCheckReady(call, rag_ready)
    /\ UNCHANGED <<rag_ready, flag_changed>>
    /\ Frame

Search ==
    /\ call.pc = "search"
    /\ \E outcome \in SearchOutcomes : call' = DoSearch(call, rag_ready, outcome)
    /\ UNCHANGED <<rag_ready, flag_changed>>
    /\ Frame

Context ==
    /\ call.pc = "context"
    /\ \E outcome \in SearchOutcomes : call' = DoContext(call, rag_ready, outcome)
    /\ UNCHANGED <<rag_ready, flag_changed>>
    /\ Frame

Elif ==
    /\ call.pc = "elif"
    /\ call' = DoElif(call, rag_ready)
    /\ UNCHANGED <<rag_ready, flag_changed>>
    /\ Frame

Structured ==
    /\ call.pc = "structured"
    /\ \E faults \in StoreFaults :
          call' = DoStructured(call, rag_ready, programs, config, faults)
    /\ UNCHANGED <<rag_ready, flag_changed>>
    /\ Frame

Generate ==
    /\ call.pc = "generate"
    /\ \E chunks \in SeqsUpTo(Tokens, MaxChunks), fails \in BOOLEAN :
          call' = DoGenerate(call, config, chunks, fails)
    /\ UNCHANGED <<rag_ready, flag_changed>>
    /\ Frame

StreamOpen ==
    /\ call.pc = "open"
    /\ call' = DoStreamOpen(call, config)
    /\ UNCHANGED <<rag_ready, flag_changed>>
    /\ Frame

StreamToken ==
    /\ call.pc = "streaming"
    /\ Len(call.chunks) < MaxChunks
    /\ \E token \in Tokens : call' = DoStreamToken(call, token)
    /\ UNCHANGED <<rag_ready, flag_changed>>
    /\ Frame

\* the provider's stream raises
StreamFail ==
    /\ call.pc = "streaming"
    /\ call' = DoStreamFail(call, "ProviderError")
    /\ UNCHANGED <<rag_ready, flag_changed>>
    /\ Frame

\* the provider's stream is exhausted, or the generator resumes after the
\* error token
StreamFinal ==
    /\ call.pc \in {"streaming", "failed"}
    /\ call' = DoStreamFinal(call)
    /\ UNCHANGED <<rag_ready, flag_changed>>
    /\ Frame

\* the caller has the result (or the exception); the next request may come
Return ==
    /\ call.pc \in {"returned", "raised"}
    /\ call' = IdleCall
    /\ flag_changed' = FALSE
    /\ UNCHANGED rag_ready
    /\ Frame

Next ==
    \/ set_rag_ready
    \/ Start
    \/ CheckReady
    \/ Search
    \/ Context
    \/ Elif
    \/ Structured
    \/ Generate
    \/ StreamOpen
    \/ StreamToken
    \/ StreamFail
    \/ StreamFinal
    \/ Return

Spec == Init /\ [][Next]_vars

\* ------------------------------------------- whole calls, one environment
\* The retrieval phase with one readiness value and one search outcome for
\* the whole call (lines 261-285 / 323-345).
RunRetrieval(c0, ready, e, store, cfg) ==
    LET c1 == DoCheckReady(c0, ready)
        c2 == IF c1.pc = "search"
              THEN DoContext(DoSearch(c1, ready, e.outcome), ready, e.outcome)
              ELSE DoElif(c1, ready)
    IN DoStructured(c2, ready, store, cfg, e.faults)

process_query(ready, e, store, cfg) ==
    LET c == RunRetrieval(DoStart("query", e.query, e.history, e.program_id, cfg),
                          ready, e, store, cfg)
    IN IF c.pc = "raised" THEN c ELSE DoGenerate(c, cfg, e.chunks, e.fails)

RECURSIVE FeedChunks(_, _)
FeedChunks(c, chunks) ==
    IF Len(chunks) = 0 THEN c
    ELSE FeedChunks(DoStreamToken(c, chunks[1]), Tail(chunks))

process_query_stream(ready, e, store, cfg) ==
    LET c == RunRetrieval(DoStart("stream", e.query, e.history, e.program_id, cfg),
                          ready, e, store, cfg)
        opened == DoStreamOpen(c, cfg)
    IN IF c.pc = "raised" THEN c
       ELSE IF opened.pc = "failed" THEN DoStreamFinal(opened)
       ELSE IF e.fails THEN DoStreamFinal(DoStreamFail(opened, "ProviderError"))
       ELSE DoStreamFinal(FeedChunks(opened, e.chunks))

\* A deterministic provider: the same text, in chunks or whole, or the same
\* failure, on both paths.
EquivEnvs ==
    [query : Queries, history : Histories, program_id : ProgramIds,
     outcome : SearchOutcomes,
     faults : {[by_id |-> FALSE, all |-> FALSE], [by_id |-> FALSE, all |-> TRUE]},
     chunks : SeqsUpTo(Tokens, MaxChunks), fails : {FALSE}]
    \cup
    [query : Queries, history : Histories, program_id : ProgramIds,
     outcome : SearchOutcomes,
     faults : {[by_id |-> FALSE, all |-> FALSE]},
     chunks : {<<>>}, fails : {TRUE}]

EquivConfigs == {cfg \in Configs : cfg.supabase /\ cfg.provider # "gemini"}

InitEquiv ==
    /\ rag_ready \in BOOLEAN
    /\ programs \in Stores
    /\ config \in EquivConfigs
    /\ call = IdleCall
    /\ flag_changed = FALSE
    /\ fn_in = NoFn
    /\ fn_out = ""
    /\ eq_env \in EquivEnvs
    /\ eq_sync = IdleCall
    /\ eq_stream = IdleCall
    /\ index = {}
    /\ builds = NoBuilds
    /\ startup = NoStartup
    /\ loop = NoLoop
    /\ linear = NoLinear

EquivQuery ==
    /\ eq_sync.pc = "idle"
    /\ eq_sync' = process_query(rag_ready, eq_env, programs, config)
    /\ UNCHANGED <<rag_ready, programs, config, call, flag_changed,
                   fn_in, fn_out, eq_env, eq_stream,
                   index, builds, startup, loop, linear>>

EquivStream ==
    /\ eq_stream.pc = "idle"
    /\ eq_stream' = process_query_stream(rag_ready, eq_env, programs, config)
    /\ UNCHANGED <<rag_ready, programs, config, call, flag_changed,
                   fn_in, fn_out, eq_env, eq_sync,
                   index, builds, startup, loop, linear>>

NextEquiv == EquivQuery \/ EquivStream

SpecEquiv == InitEquiv /\ [][NextEquiv]_vars

\* --------------------------------------------------- the classifier alone
Vocabulary == {"How", "many", "show", "Summarize", "risks", "in",
               "programs", "status", "hello"}

InitClassify ==
    /\ rag_ready = FALSE
    /\ programs = <<>>
    /\ config \in {cfg \in Configs : cfg.provider = "claude" /\ cfg.api_key /\ cfg.supabase}
    /\ call = IdleCall
    /\ flag_changed = FALSE
    /\ fn_in \in [kind : {"classify"}, query : SeqsUpTo(Vocabulary, MaxQueryLen)]
    /\ fn_out = ""
    /\ eq_env = NoEnv
    /\ eq_sync = IdleCall
    /\ eq_stream = IdleCall
    /\ index = {}
    /\ builds = NoBuilds
    /\ startup = NoStartup
    /\ loop = NoLoop
    /\ linear = NoLinear

Classify ==
    /\ fn_out = ""
    /\ fn_out' = _detect_query_type(fn_in.query)
    /\ UNCHANGED <<rag_ready, programs, config, call, flag_changed,
                   fn_in, eq_env, eq_sync, eq_stream,
                   index, builds, startup, loop, linear>>

NextClassify == Classify

SpecClassify == InitClassify /\ [][NextClassify]_vars

\* ------------------------------------------------ the confidence rule alone
Scores == {0, 10, 20, 40, 50, 60}

ScoredResult(score) ==
    [content |-> "doc", metadata |-> RowAlpha.metadata, relevance_score |-> score]

RECURSIVE Pad(_)
Pad(n) == IF n = 0 THEN "" ELSE "x" \o Pad(n - 1)

\* no structured context, one of exactly 100 characters, one of 101
ContextSamples == {"", Pad(100), Pad(101)}

InitConfidence ==
    /\ rag_ready = FALSE
    /\ programs = <<>>
    /\ config \in {cfg \in Configs : cfg.provider = "claude" /\ cfg.api_key /\ cfg.supabase}
    /\ call = IdleCall
    /\ flag_changed = FALSE
    /\ fn_in \in [kind : {"confidence"},
                  search_results : SeqsUpTo({ScoredResult(x) : x \in Scores}, MaxResults),
                  structured_context : ContextSamples]
    /\ fn_out = ""
    /\ eq_env = NoEnv
    /\ eq_sync = IdleCall
    /\ eq_stream = IdleCall
    /\ index = {}
    /\ builds = NoBuilds
    /\ startup = NoStartup
    /\ loop = NoLoop
    /\ linear = NoLinear

Confidence ==
    /\ fn_out = ""
    /\ fn_out' = _determine_confidence(fn_in.search_results, fn_in.structured_context)
    /\ UNCHANGED <<rag_ready, programs, config, call, flag_changed,
                   fn_in, eq_env, eq_sync, eq_stream,
                   index, builds, startup, loop, linear>>

NextConfidence == Confidence

SpecConfidence == InitConfidence /\ [][NextConfidence]_vars

\* ------------------------------------------- the provider formatting alone
MaxMessages == 4

\* the i-th message of a list says "m<i>"
MessageLists ==
    {[i \in DOMAIN roles |-> [role |-> roles[i], content |-> "m" \o ToString(i)]] :
        roles \in SeqsUpTo({"system", "user", "assistant"}, MaxMessages)}

NotRun == [done |-> FALSE]

InitFormat ==
    /\ rag_ready = FALSE
    /\ programs = <<>>
    /\ config \in {cfg \in Configs : cfg.api_key /\ cfg.supabase
                                     /\ cfg.provider \in {"claude", "openai"}}
    /\ call = IdleCall
    /\ flag_changed = FALSE
    /\ fn_in \in [kind : {"format"}, messages : MessageLists,
                  context : {"", "CTX"}]
    /\ fn_out = NotRun
    /\ eq_env = NoEnv
    /\ eq_sync = IdleCall
    /\ eq_stream = IdleCall
    /\ index = {}
    /\ builds = NoBuilds
    /\ startup = NoStartup
    /\ loop = NoLoop
    /\ linear = NoLinear

\* ClaudeProvider.generate / stream up to the backend call
FormatClaude ==
    /\ config.provider = "claude"
    /\ ~fn_out.done
    /\ fn_out' = [done |-> TRUE,
                  system |-> ClaudeSystemPrompt(fn_in.messages),
                  messages |-> ClaudeFormatMessages(fn_in.messages, fn_in.context)]
    /\ UNCHANGED <<rag_ready, programs, config, call, flag_changed,
                   fn_in, eq_env, eq_sync, eq_stream,
                   index, builds, startup, loop, linear>>

\* OpenAIProvider.generate / stream up to the backend call
FormatOpenAI ==
    /\ config.provider = "openai"
    /\ ~fn_out.done
    /\ fn_out' = [done |-> TRUE,
                  system |-> NONE,
                  messages |-> OpenAIFormatMessages(fn_in.messages, fn_in.context)]
    /\ UNCHANGED <<rag_ready, programs, config, call, flag_changed,
                   fn_in, eq_env, eq_sync, eq_stream,
                   index, builds, startup, loop, linear>>

NextFormat == FormatClaude \/ FormatOpenAI

SpecFormat == InitFormat /\ [][NextFormat]_vars

\* --------------------------------------------------- semantic search alone
SearchCases ==
    {[kind |-> k] : k \in SearchFailures}
    \cup {[kind |-> "rows", rows |-> rows] :
            rows \in SeqsUpTo({RowAlpha, RowRisk, RowGamma}, MaxResults)}

InitSearch ==
    /\ rag_ready \in BOOLEAN
    /\ programs = <<>>
    /\ config \in {cfg \in Configs : cfg.provider = "claude" /\ cfg.api_key /\ cfg.supabase}
    /\ call = IdleCall
    /\ flag_changed = FALSE
    /\ fn_in \in [kind : {"search"}, filter_program_id : ProgramIds,
                  outcome : SearchCases]
    /\ fn_out = NotRun
    /\ eq_env = NoEnv
    /\ eq_sync = IdleCall
    /\ eq_stream = IdleCall
    /\ index = {}
    /\ builds = NoBuilds
    /\ startup = NoStartup
    /\ loop = NoLoop
    /\ linear = NoLinear

SemanticSearch ==
    /\ ~fn_out.done
    /\ fn_out' = [done |-> TRUE,
                  run |-> SemanticSearchRun(rag_ready, fn_in.filter_program_id,
                                            fn_in.outcome)]
    /\ UNCHANGED <<rag_ready, programs, config, call, flag_changed,
                   fn_in, eq_env, eq_sync, eq_stream,
                   index, builds, startup, loop, linear>>

NextSearch == SemanticSearch

SpecSearch == InitSearch /\ [][NextSearch]_vars

\* ------------------------------------------------ startup and index builds
\* rows found in the table before the run: none, one of a current entity,
\* one of an entity that no longer exists
PriorIndexes ==
    {{},
     {IndexRow([type |-> "program", id |-> "p1"], "before")},
     {IndexRow([type |-> "program", id |-> "p0"], "before")}}

InitStartup ==
    /\ rag_ready = FALSE
    /\ programs \in Stores
    /\ config \in {cfg \in Configs : cfg.provider = "claude" /\ cfg.api_key}
    /\ call = IdleCall
    /\ flag_changed = FALSE
    /\ fn_in = NoFn
    /\ fn_out = ""
    /\ eq_env = NoEnv
    /\ eq_sync = IdleCall
    /\ eq_stream = IdleCall
    /\ index \in PriorIndexes
    /\ builds = NoBuilds
    /\ startup = NoStartup
    /\ loop = NoLoop
    /\ linear = NoLinear

\* startup_event lines 107-111: init_db logs its own failure
StartupBegin ==
    /\ startup.pc = "init"
    /\ startup' = [startup EXCEPT !.pc = "check"]
    /\ UNCHANGED <<rag_ready, index, builds>>
    /\ UNCHANGED <<programs, config, call, flag_changed,
                   fn_in, fn_out, eq_env, eq_sync, eq_stream, loop, linear>>

StartupCheck ==
    /\ startup.pc = "check"
    /\ \E fault \in BOOLEAN :
         LET r == DoCheckExisting(startup, rag_ready, index, StoreCall(config, fault)) IN
         /\ startup' = r.startup
         /\ rag_ready' = r.ready
         /\ builds' = IF r.submit
                      THEN [builds EXCEPT !["startup"].pc = "client"]
                      ELSE builds
    /\ UNCHANGED index
    /\ UNCHANGED <<programs, config, call, flag_changed,
                   fn_in, fn_out, eq_env, eq_sync, eq_stream, loop, linear>>

\* future.result(timeout) ends because the build ended
StartupResult ==
    /\ startup.pc = "waiting"
    /\ Finished(builds["startup"])
    /\ LET r == DoWaitEnd(startup, builds["startup"], FALSE) IN
         /\ startup' = r.startup
         /\ rag_ready' = r.ready
    /\ UNCHANGED <<index, builds>>
    /\ UNCHANGED <<programs, config, call, flag_changed,
                   fn_in, fn_out, eq_env, eq_sync, eq_stream, loop, linear>>

\* future.result(timeout) ends because the timeout expired first
StartupTimeout ==
    /\ startup.pc = "waiting"
    /\ ~Finished(builds["startup"])
    /\ LET r == DoWaitEnd(startup, builds["startup"], TRUE) IN
         /\ startup' = r.startup
         /\ rag_ready' = r.ready
    /\ UNCHANGED <<index, builds>>
    /\ UNCHANGED <<programs, config, call, flag_changed,
                   fn_in, fn_out, eq_env, eq_sync, eq_stream, loop, linear>>

\* leaving "with ThreadPoolExecutor(...) as executor": __exit__ calls
\* shutdown(wait=True), which joins the worker thread; then the return of
\* init_rag_with_timeout takes effect and startup_event ends
StartupExit ==
    /\ startup.pc = "exiting"
    /\ Finished(builds["startup"])
    /\ startup' = [startup EXCEPT !.pc = "serving"]
    /\ UNCHANGED <<rag_ready, index, builds>>
    /\ UNCHANGED <<programs, config, call, flag_changed,
                   fn_in, fn_out, eq_env, eq_sync, eq_stream, loop, linear>>

\* a second caller enters index_portfolio_data
OtherReindex ==
    /\ builds["other"].pc = "idle"
    /\ builds' = [builds EXCEPT !["other"].pc = "client"]
    /\ UNCHANGED <<rag_ready, index, startup>>
    /\ UNCHANGED <<programs, config, call, flag_changed,
                   fn_in, fn_out, eq_env, eq_sync, eq_stream, loop, linear>>

BuildClient(b) ==
    /\ builds[b].pc = "client"
    /\ \E ok \in BOOLEAN : builds' = [builds EXCEPT ![b] = DoClient(@, ok)]
    /\ UNCHANGED <<rag_ready, index, startup>>
    /\ UNCHANGED <<programs, config, call, flag_changed,
                   fn_in, fn_out, eq_env, eq_sync, eq_stream, loop, linear>>

BuildClear(b) ==
    /\ builds[b].pc = "clear"
    /\ \E ok \in BOOLEAN :
         LET r == DoClear(builds[b], index, ok) IN
         /\ builds' = [builds EXCEPT ![b] = r.build]
         /\ index' = r.index
    /\ UNCHANGED <<rag_ready, startup>>
    /\ UNCHANGED <<programs, config, call, flag_changed,
                   fn_in, fn_out, eq_env, eq_sync, eq_stream, loop, linear>>

BuildFetch(b) ==
    /\ builds[b].pc = "fetch"
    /\ \E fault \in BOOLEAN :
         builds' = [builds EXCEPT ![b] = DoFetch(@, programs, config, fault)]
    /\ UNCHANGED <<rag_ready, index, startup>>
    /\ UNCHANGED <<programs, config, call, flag_changed,
                   fn_in, fn_out, eq_env, eq_sync, eq_stream, loop, linear>>

BuildEmbed(b) ==
    /\ builds[b].pc = "embed"
    /\ \E ok \in BOOLEAN : builds' = [builds EXCEPT ![b] = DoEmbed(@, ok)]
    /\ UNCHANGED <<rag_ready, index, startup>>
    /\ UNCHANGED <<programs, config, call, flag_changed,
                   fn_in, fn_out, eq_env, eq_sync, eq_stream, loop, linear>>

BuildInsert(b) ==
    /\ builds[b].pc = "insert"
    /\ \E ok \in BOOLEAN :
         LET r == DoInsert(builds[b], index, b, ok) IN
         /\ builds' = [builds EXCEPT ![b] = r.build]
         /\ index' = r.index
    /\ UNCHANGED <<rag_ready, startup>>
    /\ UNCHANGED <<programs, config, call, flag_changed,
                   fn_in, fn_out, eq_env, eq_sync, eq_stream, loop, linear>>

NextStartup ==
    \/ StartupBegin
    \/ StartupCheck
    \/ StartupResult
    \/ StartupTimeout
    \/ StartupExit
    \/ OtherReindex
    \/ \E b \in Builders : BuildClient(b)
    \/ \E b \in Builders : BuildClear(b)
    \/ \E b \in Builders : BuildFetch(b)
    \/ \E b \in Builders : BuildEmbed(b)
    \/ \E b \in Builders : BuildInsert(b)

SpecStartup == InitStartup /\ [][NextStartup]_vars

\* ------------------------------------- confidence on two inputs side by side
MaxPairLen == 2

Total(results) == SeqSum(Relevances(results))

\* result lists whose average relevance lies between 0.1 and 0.6
InRange(results) ==
    /\ Len(results) > 0
    /\ Total(results) >= 10 * Len(results)
    /\ Total(results) <= 60 * Len(results)

InitMonotone ==
    /\ rag_ready = FALSE
    /\ programs = <<>>
    /\ config \in {cfg \in Configs : cfg.provider = "claude" /\ cfg.api_key /\ cfg.supabase}
    /\ call = IdleCall
    /\ flag_changed = FALSE
    /\ fn_in \in {in \in [kind : {"monotone"},
                          lower : SeqsUpTo({ScoredResult(x) : x \in Scores}, MaxPairLen),
                          higher : SeqsUpTo({ScoredResult(x) : x \in Scores}, MaxPairLen),
                          structured_context : ContextSamples] :
                     /\ Len(in.lower) = Len(in.higher)
                     /\ InRange(in.lower) /\ InRange(in.higher)
                     /\ Total(in.lower) <= Total(in.higher)}
    /\ fn_out = NotRun
    /\ eq_env = NoEnv
    /\ eq_sync = IdleCall
    /\ eq_stream = IdleCall
    /\ index = {}
    /\ builds = NoBuilds
    /\ startup = NoStartup
    /\ loop = NoLoop
    /\ linear = NoLinear

ConfidencePair ==
    /\ ~fn_out.done
    /\ fn_out' = [done |-> TRUE,
                  lower |-> _determine_confidence(fn_in.lower, fn_in.structured_context),
                  higher |-> _determine_confidence(fn_in.higher, fn_in.structured_context)]
    /\ UNCHANGED <<rag_ready, programs, config, call, flag_changed,
                   fn_in, eq_env, eq_sync, eq_stream,
                   index, builds, startup, loop, linear>>

NextMonotone == ConfidencePair

SpecMonotone == InitMonotone /\ [][NextMonotone]_vars

\* ------------------------------------------------- source extraction alone
\* results as semantic_search returns them: two documents of program p1
\* under different display names, a risk, a milestone, a document without
\* an id and a risk whose id equals a program id
SourceResult(type, program_id, program_name, risk_id, milestone_id) ==
    [content |-> "doc",
     metadata |-> [type |-> type, program_id |-> program_id,
                   program_name |-> program_name, risk_id |-> risk_id,
                   milestone_id |-> milestone_id],
     relevance_score |-> 50]

SourceResults ==
    {SourceResult("program", "p1", "Alpha", NONE, NONE),
     SourceResult("program", "p1", "Alpha (renamed)", NONE, NONE),
     SourceResult("risk", "p1", "Alpha", "r1", NONE),
     SourceResult("milestone", "p1", NONE, NONE, "m1"),
     SourceResult("program", NONE, "Nameless", NONE, NONE),
     SourceResult("risk", "p3", "Gamma", "p1", NONE),
     SourceResult(NONE, "p3", "Gamma", NONE, NONE)}

InitSources ==
    /\ rag_ready = FALSE
    /\ programs = <<>>
    /\ config \in {cfg \in Configs : cfg.provider = "claude" /\ cfg.api_key /\ cfg.supabase}
    /\ call = IdleCall
    /\ flag_changed = FALSE
    /\ fn_in \in [kind : {"sources"},
                  search_results : SeqsUpTo(SourceResults, MaxResults)]
    /\ fn_out = NotRun
    /\ eq_env = NoEnv
    /\ eq_sync = IdleCall
    /\ eq_stream = IdleCall
    /\ index = {}
    /\ builds = NoBuilds
    /\ startup = NoStartup
    /\ loop = NoLoop
    /\ linear = NoLinear

ExtractSources ==
    /\ ~fn_out.done
    /\ fn_out' = [done |-> TRUE,
                  sources |-> _extract_sources_from_search(fn_in.search_results)]
    /\ UNCHANGED <<rag_ready, programs, config, call, flag_changed,
                   fn_in, eq_env, eq_sync, eq_stream,
                   index, builds, startup, loop, linear>>

NextSources == ExtractSources

SpecSources == InitSources /\ [][NextSources]_vars

\* ---------------------------------------------------- the risk listing alone
MaxRisks == 2

\* the risks of one program: the i-th one is titled "<program>#<i>"
RisksOf(name, severities) ==
    [i \in DOMAIN severities |->
        [id |-> name \o "-" \o ToString(i), title |-> name \o "#" \o ToString(i),
         severity |-> severities[i], mitigation |-> NONE, status |-> "Open"]]

\* the same with a status for each risk
RisksWith(name, severities, statuses) ==
    [i \in DOMAIN severities |->
        [RisksOf(name, severities)[i] EXCEPT !.status = statuses[i]]]

\* Alpha's risks are all open; Gamma's carry every status of RiskStatus
RiskStores ==
    {<<[Alpha EXCEPT !.risks = RisksOf("Alpha", sa)],
       [Gamma EXCEPT !.risks = RisksWith("Gamma", g[1], g[2])]>> :
        sa \in SeqsUpTo({"High", "Medium", "Low"}, MaxRisks),
        g \in {x \in SeqsUpTo({"High", "Medium", "Low"}, MaxRisks)
                     \X SeqsUpTo({"Open", "Mitigated", "Closed"}, MaxRisks) :
                 Len(x[1]) = Len(x[2])}}

InitRisks ==
    /\ rag_ready = FALSE
    /\ programs \in RiskStores
    /\ config \in {cfg \in Configs : cfg.provider = "claude" /\ cfg.api_key /\ cfg.supabase}
    /\ call = IdleCall
    /\ flag_changed = FALSE
    /\ fn_in = [kind |-> "risks", query |-> <<"list", "risks">>]
    /\ fn_out = NotRun
    /\ eq_env = NoEnv
    /\ eq_sync = IdleCall
    /\ eq_stream = IdleCall
    /\ index = {}
    /\ builds = NoBuilds
    /\ startup = NoStartup
    /\ loop = NoLoop
    /\ linear = NoLinear

\* the risk branch of _build_structured_context: the lines it appends
ListRisks ==
    /\ ~fn_out.done
    /\ fn_out' = [done |-> TRUE,
                  lines |-> RiskSection(lower(fn_in.query), get_all_programs(programs))]
    /\ UNCHANGED <<rag_ready, programs, config, call, flag_changed,
                   fn_in, eq_env, eq_sync, eq_stream,
                   index, builds, startup, loop, linear>>

NextRisks == ListRisks

SpecRisks == InitRisks /\ [][NextRisks]_vars

\* ------------------------------------------- insight and summary calls
InitBriefing ==
    /\ rag_ready \in BOOLEAN
    /\ programs \in Stores
    /\ config \in Configs
    /\ call = IdleCall
    /\ flag_changed = FALSE
    /\ fn_in \in [kind : {"insight", "summary"}, outcome : SearchOutcomes,
                  fault : BOOLEAN, answer : {"", "An insight."}, fails : BOOLEAN]
    /\ fn_out = NotRun
    /\ eq_env = NoEnv
    /\ eq_sync = IdleCall
    /\ eq_stream = IdleCall
    /\ index = {}
    /\ builds = NoBuilds
    /\ startup = NoStartup
    /\ loop = NoLoop
    /\ linear = NoLinear

ProactiveInsight ==
    /\ fn_in.kind = "insight"
    /\ ~fn_out.done
    /\ fn_out' = [done |-> TRUE,
                  run |-> generate_proactive_insight(rag_ready, fn_in.outcome, programs,
                              config, fn_in.fault, fn_in.answer, fn_in.fails)]
    /\ UNCHANGED <<rag_ready, programs, config, call, flag_changed,
                   fn_in, eq_env, eq_sync, eq_stream,
                   index, builds, startup, loop, linear>>

PortfolioSummary ==
    /\ fn_in.kind = "summary"
    /\ ~fn_out.done
    /\ fn_out' = [done |-> TRUE,
                  run |-> generate_portfolio_summary(rag_ready, fn_in.outcome, programs,
                              config, fn_in.fault, fn_in.answer, fn_in.fails)]
    /\ UNCHANGED <<rag_ready, programs, config, call, flag_changed,
                   fn_in, eq_env, eq_sync, eq_stream,
                   index, builds, startup, loop, linear>>

NextBriefing == ProactiveInsight \/ PortfolioSummary

SpecBriefing == InitBriefing /\ [][NextBriefing]_vars

\* ---------------------------------------------- requests on the event loop
InitLoop ==
    /\ rag_ready \in BOOLEAN
    /\ programs = <<>>
    /\ config \in {cfg \in Configs : cfg.provider = "claude" /\ cfg.api_key /\ cfg.supabase}
    /\ call = IdleCall
    /\ flag_changed = FALSE
    /\ fn_in = NoFn
    /\ fn_out = ""
    /\ eq_env = NoEnv
    /\ eq_sync = IdleCall
    /\ eq_stream = IdleCall
    /\ index = {}
    /\ builds = NoBuilds
    /\ startup = NoStartup
    /\ loop = NoLoop
    /\ linear = NoLinear

LoopFrame == UNCHANGED <<rag_ready, programs, config, call, flag_changed,
                         fn_in, fn_out, eq_env, eq_sync, eq_stream,
                         index, builds, startup, linear>>

\* a request reaches the server
Arrive(r) ==
    /\ loop.pc[r] = "none"
    /\ loop' = [loop EXCEPT !.pc[r] = "pending"]
    /\ LoopFrame

\* the free loop runs a chat task: first entry or wake-up from the sleep
ResumeChat(r) ==
    /\ r \in Chats
    /\ loop.owner = NONE
    /\ loop.pc[r] \in {"pending", "sleeping"}
    /\ loop' = DoResumeChat(loop, r)
    /\ LoopFrame

\* the retrieval calls of process_query_stream return
RetrievalDone(r) ==
    /\ r \in Chats
    /\ loop.pc[r] = "retrieving"
    /\ loop' = [loop EXCEPT !.pc[r] = "awaiting_chunk"]
    /\ LoopFrame

\* the LLM backend delivers the next chunk
ChunkArrives(r) ==
    /\ r \in Chats
    /\ loop.pc[r] = "awaiting_chunk"
    /\ loop.received[r] < MaxChunks
    /\ loop' = DoChunk(loop, r)
    /\ LoopFrame

\* the LLM backend ends the stream
StreamEnds(r) ==
    /\ r \in Chats
    /\ loop.pc[r] = "awaiting_chunk"
    /\ loop' = DoStreamEnd(loop, r)
    /\ LoopFrame

\* the free loop runs the health check to its end
HealthCheck ==
    /\ loop.owner = NONE
    /\ loop.pc["health"] = "pending"
    /\ loop' = [loop EXCEPT !.pc["health"] = "done"]
    /\ LoopFrame

NextLoop ==
    \/ \E r \in Requests : Arrive(r)
    \/ \E r \in Chats : ResumeChat(r)
    \/ \E r \in Chats : RetrievalDone(r)
    \/ \E r \in Chats : ChunkArrives(r)
    \/ \E r \in Chats : StreamEnds(r)
    \/ HealthCheck

SpecLoop == InitLoop /\ [][NextLoop]_vars

\* ------------------------------------------------- syncs from the tracker
\* Between two syncs projects join or leave initiatives and initiatives
\* come and go: every sync fetches some tracker state and runs sync_linear
\* step by step against it.
Trackers ==
    {t \in [initiatives : SUBSET Initiatives,
            status : [Projects -> ProjectStatuses],
            member : [Projects -> SUBSET Initiatives]] :
        \A p \in Projects : t.member[p] \subseteq t.initiatives}

InitSync ==
    /\ rag_ready = FALSE
    /\ programs = <<>>
    /\ config = [provider |-> "claude", api_key |-> TRUE, supabase |-> TRUE]
    /\ call = IdleCall
    /\ flag_changed = FALSE
    /\ fn_in = NoFn
    /\ fn_out = ""
    /\ eq_env = NoEnv
    /\ eq_sync = IdleCall
    /\ eq_stream = IdleCall
    /\ index = {}
    /\ builds = NoBuilds
    /\ startup = NoStartup
    /\ loop = NoLoop
    /\ linear = NoLinear

SyncFrame == UNCHANGED <<rag_ready, programs, config, call, flag_changed,
                         fn_in, fn_out, eq_env, eq_sync, eq_stream,
                         index, builds, startup, loop>>

BetweenSyncs == linear.pc \in {"idle", "completed", "raised"}

\* POST /integrations/linear/sync: sync_linear starts and fetches
SyncFetch ==
    /\ BetweenSyncs
    /\ \E tracker \in Trackers, ok \in BOOLEAN :
          linear' = DoFetchLinear(linear, tracker, ok)
    /\ SyncFrame

SyncObjectives ==
    /\ linear.pc = "objectives"
    /\ \E upserted \in SUBSET linear.fetched.initiatives :
          linear' = DoSyncObjectives(linear, upserted)
    /\ SyncFrame

SyncProject ==
    /\ linear.pc = "programs"
    /\ \E http_fails \in BOOLEAN, delete_fails \in BOOLEAN, post_fails \in BOOLEAN :
          linear' = DoProject(linear, http_fails, delete_fails, post_fails)
    /\ SyncFrame

SyncFinish ==
    /\ linear.pc = "finish"
    /\ \E ok \in BOOLEAN : linear' = DoFinishSync(linear, ok)
    /\ SyncFrame

NextSync ==
    \/ SyncFetch
    \/ SyncObjectives
    \/ SyncProject
    \/ SyncFinish

SpecSync == InitSync /\ [][NextSync]_vars

\* ------------------------------------------------------------------ claims
Streamed == call.mode = "stream"
Returned == call.pc = "returned"
AfterRetrieval == call.pc \in {"generate", "open", "streaming", "failed", "returned"}

\* the text of the token events before position n
RECURSIVE TokensBefore(_, _)
TokensBefore(events, n) ==
    IF n <= 1 THEN "" ELSE TokensBefore(events, n - 1) \o events[n - 1].token

\* C1: a call of process_query_stream whose retrieval did not raise yields
\* zero or more token events with a null result and then exactly one terminal
\* event with empty text and a non-null QueryResult; nothing follows the
\* terminal event, whether the provider succeeds, is empty or fails.
C1_StreamShape ==
    Streamed =>
        /\ \A i \in 1..Len(call.events) :
              call.events[i].result # <<>> =>
                  /\ i = Len(call.events)
                  /\ call.events[i].token = ""
                  /\ Returned
        /\ Returned =>
              /\ Len(call.events) >= 1
              /\ call.events[Len(call.events)].result = call.result
              /\ Len(call.result) = 1
        /\ call.pc = "raised" => call.events = <<>>

C1_Witness ==
    /\ Streamed /\ Returned
    /\ call.llm_error = "ProviderError"
    /\ Len(call.chunks) = 1
    /\ Len(call.events) = 3

\* C2: when provider construction or the generate call fails in
\* process_query, the call returns the fixed apology with confidence low and
\* the sources computed from retrieval; no exception escapes.
C2_GenerateFailure ==
    (call.mode = "query" /\ call.llm_error # NONE) =>
        /\ Returned
        /\ call.raised = NONE
        /\ call.result = <<[answer |-> ApologyText, sources |-> call.sources,
                            confidence |-> "low"]>>
        /\ call.sources = _extract_sources_from_search(call.search_results)

C2_Witness ==
    /\ call.mode = "query" /\ Returned
    /\ call.llm_error = "ProviderError"
    /\ Len(call.sources) = 2
    /\ call.confidence = "high"

\* C3: whatever the embedding backend, the vector store and the LLM backend
\* do, both operations end with a well-formed QueryResult; the only
\* exceptions that escape are configuration errors and entity-store read
\* errors.
C3_OnlyConfigOrStoreErrorsEscape ==
    /\ call.pc = "raised" => call.raised \in {"ConfigError", "EntityStoreError"}
    /\ Returned =>
          /\ Len(call.result) = 1
          /\ call.result[1].confidence \in {"high", "medium", "low"}
          /\ call.raised = NONE

C5_ContextNeverEmpty ==
    AfterRetrieval =>
        LET sem == call.semantic_context
            str == call.structured_context
            ctx == call.combined_context
        IN /\ ctx # ""
           /\ call.llm_called => call.llm_context = ctx
           /\ (sem # "" /\ str # "") =>
                 ctx = "=== Semantic Search Results ===\n" \o sem
                       \o "\n\n=== Structured Data ===\n" \o str
           /\ (sem # "" /\ str = "") => ctx = sem
           /\ (sem = "" /\ str # "") => ctx = str
           /\ (sem = "" /\ str = "") => ctx = NoInfo

C5_Witness ==
    /\ call.llm_called
    /\ call.semantic_context # "" /\ call.structured_context # ""
    /\ call.semantic_context # NoInfo

\* C6: the confidence rule: low without semantic results and structured
\* context; with semantic results the tier is decided by their average
\* relevance alone (> 0.5 high, else > 0.2 medium); the structured length
\* rule (> 100 characters high, else medium) only without semantic results.
C6_ConfidenceRule ==
    (fn_in.kind = "confidence" /\ fn_out # "") =>
        LET rs == fn_in.search_results
            sc == fn_in.structured_context
            n == Len(rs)
            total == SeqSum(Relevances(rs))
        IN /\ (n = 0 /\ sc = "") => fn_out = "low"
           /\ (n > 0 /\ total > 50 * n) => fn_out = "high"
           /\ (n > 0 /\ total <= 50 * n /\ total > 20 * n) => fn_out = "medium"
           /\ n > 0 => fn_out = ConfidenceByRelevanceAlone(rs, sc)
           /\ (n = 0 /\ sc # "") =>
                 fn_out = IF Len(sc) > 100 THEN "high" ELSE "medium"

\* C7: in every completed run of process_query_stream the answer of the
\* terminal QueryResult is the concatenation of the token events yielded
\* before it, also when the provider fails after some tokens.
C7_AnswerIsConcatenation ==
    (Streamed /\ Returned) =>
        call.result[1].answer = TokensBefore(call.events, Len(call.events))

\* C8: if the provider's stream fails after k >= 0 chunks, the call yields
\* those k token events, one token event with the error text, then the
\* terminal event with confidence low and the sources computed before
\* generation; no exception escapes.
C8_StreamFailure ==
    (Streamed /\ Returned /\ call.llm_error # NONE) =>
        /\ call.raised = NONE
        /\ call.events =
              [i \in 1..Len(call.chunks) |-> [token |-> call.chunks[i], result |-> <<>>]]
              \o <<[token |-> ApologyText, result |-> <<>>]>>
              \o <<[token |-> "", result |-> call.result]>>
        /\ Len(call.result) = 1
        /\ call.result[1].confidence = "low"
        /\ call.result[1].sources = _extract_sources_from_search(call.search_results)

C8_Witness ==
    /\ Streamed /\ Returned
    /\ call.llm_error = "ProviderError"
    /\ Len(call.chunks) = 2
    /\ Len(call.sources) = 2

\* C9: with the same inputs, readiness, store and a deterministic provider
\* whose chunks concatenate to the text generate returns, the terminal
\* answer of process_query_stream equals the answer of process_query, and
\* both provider calls get the same messages and context.
C9_StreamEqualsSync ==
    (eq_sync.pc # "idle" /\ eq_stream.pc # "idle") =>
        /\ eq_sync.raised = eq_stream.raised
        /\ eq_sync.pc = "returned" =>
              /\ eq_stream.pc = "returned"
              /\ eq_stream.result[1].answer = eq_sync.result[1].answer
              /\ eq_stream.events[Len(eq_stream.events)].result[1].answer
                    = eq_sync.result[1].answer
              /\ eq_stream.llm_called = eq_sync.llm_called
              /\ eq_stream.llm_messages = eq_sync.llm_messages
              /\ eq_stream.llm_context = eq_sync.llm_context
              /\ eq_sync.llm_error = NONE =>
                    eq_sync.result[1].answer = ConcatAll(eq_env.chunks)

C9_Witness ==
    /\ eq_sync.pc = "returned" /\ eq_stream.pc = "returned"
    /\ ~eq_env.fails
    /\ eq_sync.llm_called
    /\ Len(eq_env.chunks) = 2
    /\ eq_env.chunks[1] # eq_env.chunks[2]
    /\ eq_sync.sem_ran /\ eq_sync.struct_ran

FromPromptAssembly(messages) ==
    /\ Len(messages) >= 2
    /\ messages[1].role = "system"
    /\ \A i \in 2..Len(messages) : messages[i].role \in {"user", "assistant"}
    /\ messages[Len(messages)].role = "user"

\* C11: for the OpenAI provider, every message list produced by Prompt
\* Assembly and every non-empty context: the messages sent carry the context
\* as a labeled block ahead of the current query, inside the final user turn,
\* and in no other message.
C11_OpenAIContextInFinalTurn ==
    (fn_in.kind = "format" /\ fn_out.done /\ config.provider = "openai"
     /\ FromPromptAssembly(fn_in.messages) /\ fn_in.context # "") =>
        LET inp == fn_in.messages
            out == fn_out.messages
            n == Len(inp)
        IN /\ Len(out) = n
           /\ out[n] = [role |-> "user",
                        content |-> OpenAIWrap(fn_in.context, inp[n].content)]
           /\ \A i \in 1..(n - 1) : out[i] = inp[i]

\* C12: for the Claude provider, every message list with at least one user
\* turn and every non-empty context: exactly one message sent contains the
\* context, the first user turn, wrapped in the context / user_query
\* delimiters; system entries are removed and passed as the system
\* instructions (a default when absent); every other turn is sent unchanged
\* and in order.
C12_ClaudeContextInFirstUserTurn ==
    (fn_in.kind = "format" /\ fn_out.done /\ config.provider = "claude"
     /\ fn_in.context # ""
     /\ \E i \in DOMAIN fn_in.messages : fn_in.messages[i].role = "user") =>
        LET inp == fn_in.messages
            turns == SelectSeq(inp, LAMBDA m : m.role # "system")
            systems == SelectSeq(inp, LAMBDA m : m.role = "system")
            out == fn_out.messages
            first == CHOOSE i \in DOMAIN turns :
                        /\ turns[i].role = "user"
                        /\ \A j \in 1..(i - 1) : turns[j].role # "user"
        IN /\ Len(out) = Len(turns)
           /\ \A i \in DOMAIN turns :
                 out[i] = IF i = first
                          THEN [role |-> "user",
                                content |-> ClaudeWrap(fn_in.context, turns[i].content)]
                          ELSE turns[i]
           /\ fn_out.system = IF Len(systems) > 0 THEN systems[1].content
                              ELSE DEFAULT_SYSTEM_PROMPT

\* C13: semantic_search never raises: while the readiness flag is false it
\* returns an empty list without calling the embedding backend or the vector
\* store; when the flag is true any failure of the embedding call, the
\* credential lookup or the vector-store call is converted to an empty list.
C13_SearchNeverRaises ==
    (fn_in.kind = "search" /\ fn_out.done) =>
        /\ fn_out.run.raised = NONE
        /\ ~rag_ready => (fn_out.run.result = <<>> /\ fn_out.run.calls = <<>>)
        /\ (rag_ready /\ fn_in.outcome.kind \in SearchFailures) =>
               fn_out.run.result = <<>>

C13_Witness ==
    /\ fn_in.kind = "search" /\ fn_out.done
    /\ rag_ready
    /\ fn_in.outcome.kind = "StoreError"
    /\ fn_out.run.calls = <<"embeddings", "match_embeddings">>
    /\ fn_out.run.result = <<>>

\* the rows a rebuild by b writes for the current entities
RowsOf(b) == {IndexRow(d, b) : d \in {Documents(programs)[i] : i \in DOMAIN Documents(programs)}}

\* C14: after any call of index_portfolio_data that returns normally with
\* count n (no other rebuild running), the index holds exactly n rows, one
\* for each current program, risk and milestone, and no row that was in the
\* index before the call, whatever the prior content and the outcomes of the
\* store calls.
C14_ReindexReplacesIndex ==
    \A b \in Builders :
        (builds[b].pc = "returned"
         /\ \A o \in Builders \ {b} : builds[o].pc = "idle") =>
            /\ index = RowsOf(b)
            /\ Cardinality(index) = builds[b].result

\* C15: the readiness flag is false initially and is true only after an
\* index build has returned normally or startup has found a non-empty
\* index; after a build that raised or timed out the flag is false.
C15_ReadinessFlag ==
    /\ startup.pc \in {"init", "check", "waiting"} => ~rag_ready
    /\ rag_ready => \/ startup.existing > 0
                    \/ builds["startup"].pc = "returned"
    /\ startup.outcome \in {"raised", "timeout"} => ~rag_ready
    /\ (startup.pc \in {"exiting", "serving"} /\ builds["startup"].pc = "raised")
           => ~rag_ready

C15_Witness ==
    /\ startup.pc = "serving"
    /\ startup.outcome = "timeout"
    /\ builds["startup"].pc = "returned"
    /\ ~rag_ready

\* C16: when the timeout expires before the initial build has finished
\* (also when it never finishes), init_rag_with_timeout returns 0 with the
\* flag false and the startup handler finishes without waiting for the
\* build: once timed out, the handler has finished or can finish at once.
C16_StartupNeverWaitsForBuild ==
    startup.outcome = "timeout" =>
        /\ ~rag_ready
        /\ startup.doc_count = 0
        /\ startup.pc = "serving" \/ ENABLED StartupExit

\* C17: at most one rebuild is in flight at any time, so the clear and
\* insert steps of two concurrent callers never interleave and after both
\* have finished (their clears having succeeded) the index holds exactly one
\* row per current entity.
C17_RebuildsAreExclusive ==
    /\ ~(Running(builds["startup"]) /\ Running(builds["other"]))
    /\ (\A b \in Builders : builds[b].pc = "returned" /\ builds[b].cleared) =>
          /\ Cardinality(index) = Len(Documents(programs))
          /\ \A i \in DOMAIN Documents(programs) :
                Cardinality({r \in index :
                                /\ r.type = Documents(programs)[i].type
                                /\ r.id = Documents(programs)[i].id}) = 1

Tier(confidence) ==
    CASE confidence = "low" -> 0
      [] confidence = "medium" -> 1
      [] confidence = "high" -> 2

\* C18: confidence is monotone in semantic relevance: with the structured
\* context and the number of results fixed, raising the average relevance
\* anywhere between 0.1 and 0.6 never lowers the tier (low < medium < high).
C18_ConfidenceMonotone ==
    (fn_in.kind = "monotone" /\ fn_out.done) =>
        Tier(fn_out.lower) <= Tier(fn_out.higher)

\* C19: source extraction deduplicates by id in first-seen order: the
\* sources have pairwise distinct ids, stand in the order of the first
\* result carrying each id and keep the type and title of that first
\* result; two results with the same program id give one Source, a result
\* without an id gives none.
C19_SourcesDeduplicated ==
    (fn_in.kind = "sources" /\ fn_out.done) =>
        LET rs == fn_in.search_results
            srcs == fn_out.sources
            IdOf(i) == SourceOf(rs[i]).id
            First(i) == IdOf(i) # "" /\ \A j \in 1..(i - 1) : IdOf(j) # IdOf(i)
            firsts == SelectSeq([i \in DOMAIN rs |-> i], First)
        IN /\ \A k, l \in DOMAIN srcs : k # l => srcs[k].id # srcs[l].id
           /\ \A k \in DOMAIN srcs : srcs[k].id # ""
           /\ Len(srcs) = Len(firsts)
           /\ \A k \in DOMAIN firsts :
                 LET metadata == rs[firsts[k]].metadata IN
                 /\ srcs[k].id = IdOf(firsts[k])
                 /\ srcs[k].type = (IF metadata.type = NONE THEN "program"
                                    ELSE metadata.type)
                 /\ srcs[k].title = SourceOf(rs[firsts[k]]).title

C19_Witness ==
    /\ fn_in.kind = "sources" /\ fn_out.done
    /\ Len(fn_in.search_results) = 3
    /\ fn_in.search_results[1].metadata.program_name = "Alpha (renamed)"
    /\ fn_in.search_results[2].metadata.program_id = NONE
    /\ fn_in.search_results[3].metadata.program_name = "Alpha"
    /\ fn_in.search_results[3].metadata.type = "program"
    /\ fn_out.sources = <<[type |-> "program", id |-> "p1",
                           title |-> "Alpha (renamed)"]>>

\* the risks in the order the nested loops meet them: program by program,
\* each program's risks in their own order
Met ==
    LET Pairs(k) == [i \in DOMAIN programs[k].risks |->
                        [prog_name |-> programs[k].name, risk |-> programs[k].risks[i]]]
    IN IF Len(programs) = 0 THEN <<>>
       ELSE IF Len(programs) = 1 THEN Pairs(1)
       ELSE Pairs(1) \o Pairs(2)

Rank(x) ==
    CASE x.risk.severity = "High" -> 0
      [] x.risk.severity = "Medium" -> 1
      [] x.risk.severity = "Low" -> 2
      [] OTHER -> 3

EntryLine(x) == "- [" \o x.risk.severity \o "] " \o x.prog_name \o ": " \o x.risk.title

\* C20: in the structured risk listing the risks appear in ascending
\* severity rank (High, Medium, Low, unknown) and risks of equal severity
\* keep the order in which the iteration over the entities and their risks
\* met them.
C20_RiskListingStableSorted ==
    (fn_in.kind = "risks" /\ fn_out.done /\ Len(Met) > 0) =>
        LET lines == fn_out.lines
            \* Place[k]: the position in Met of the k-th listed risk
            Listed(k) == lines[2 * k]
            PlaceOf(k) == CHOOSE m \in DOMAIN Met : EntryLine(Met[m]) = Listed(k)
        IN /\ Len(lines) = 1 + 2 * Len(Met)
           /\ \A m \in DOMAIN Met :
                 \E k \in DOMAIN Met : Listed(k) = EntryLine(Met[m])
           /\ \A k, l \in DOMAIN Met :
                 k < l =>
                    \/ Rank(Met[PlaceOf(k)]) < Rank(Met[PlaceOf(l)])
                    \/ /\ Rank(Met[PlaceOf(k)]) = Rank(Met[PlaceOf(l)])
                       /\ PlaceOf(k) < PlaceOf(l)

C20_Witness ==
    /\ fn_in.kind = "risks" /\ fn_out.done
    /\ Len(fn_out.lines) = 9
    /\ fn_out.lines[2] = "- [High] Alpha: Alpha#2"
    /\ fn_out.lines[4] = "- [High] Gamma: Gamma#1"
    /\ fn_out.lines[6] = "- [High] Gamma: Gamma#2"
    /\ fn_out.lines[8] = "- [Low] Alpha: Alpha#1"

\* C21: prompt assembly returns exactly one system message for the
\* provider, then the history turns unchanged and in order, then the new
\* user turn carrying the query; the caller's history list is left
\* unchanged by build_chat_messages, process_query and process_query_stream.
C21_PromptAssemblyFrame ==
    /\ call.pc # "idle" => call.caller_history = call.history
    /\ call.llm_called =>
          LET msgs == call.llm_messages
              n == Len(call.history)
          IN /\ Len(msgs) = n + 2
             /\ msgs[1] = [role |-> "system",
                           content |-> IF call.provider_name = "claude"
                                       THEN CLAUDE_SYSTEM_PROMPT
                                       ELSE OPENAI_SYSTEM_PROMPT]
             /\ \A i \in 1..n : msgs[i + 1] = call.history[i]
             /\ msgs[n + 2] = [role |-> "user", content |-> Join(call.query, " ")]

C21_Witness ==
    /\ call.pc = "returned"
    /\ call.llm_called
    /\ Len(call.history) = 2
    /\ Len(call.llm_messages) = 4
    /\ call.caller_history = call.history

\* C22: generate_proactive_insight and generate_portfolio_summary always
\* return empty sources; confidence is high exactly when the provider was
\* constructed and its generate call returned; on a provider-construction
\* or generation failure the result is the mode's fixed fallback message
\* with confidence low and no exception escapes.
C22_BriefingFallback ==
    (fn_in.kind \in {"insight", "summary"} /\ fn_out.done) =>
        LET run == fn_out.run
            constructed == config.provider \in {"claude", "openai"} /\ config.api_key
            store_ok == config.supabase /\ ~fn_in.fault
            generated == constructed /\ ~fn_in.fails
            fallback == IF fn_in.kind = "insight"
                        THEN "Unable to generate insight at this time."
                        ELSE "Unable to generate summary at this time."
        IN /\ store_ok => (run.raised = NONE /\ Len(run.result) = 1)
           /\ Len(run.result) = 1 =>
                 /\ run.result[1].sources = <<>>
                 /\ (run.result[1].confidence = "high") <=> generated
                 /\ generated => run.result[1].answer = fn_in.answer
                 /\ ~generated => /\ run.result[1].answer = fallback
                                  /\ run.result[1].confidence = "low"

C22_Witness ==
    /\ fn_in.kind = "summary" /\ fn_out.done
    /\ config.provider = "claude" /\ config.api_key
    /\ fn_in.fails
    /\ fn_out.run.llm_called
    /\ fn_out.run.result = <<[answer |-> "Unable to generate summary at this time.",
                              sources |-> <<>>, confidence |-> "low"]>>

\* C23: when the query contains 'risk', the structured risk listing holds
\* exactly the open risks of all entities: every risk with status Open
\* appears once, no risk with status Mitigated or Closed appears.
C23_OnlyOpenRisksListed ==
    (fn_in.kind = "risks" /\ fn_out.done) =>
        \A m \in DOMAIN Met :
            Cardinality({k \in DOMAIN fn_out.lines :
                            fn_out.lines[k] = EntryLine(Met[m])})
              = IF Met[m].risk.status = "Open" THEN 1 ELSE 0

\* C24: while one chat request waits for retrieval or for the next chunk
\* of the LLM backend inside the streaming endpoint, other requests of the
\* same process (a second chat, a health check) can still make progress:
\* the streaming consumer never holds the event loop while blocked on the
\* provider.
C24_StreamDoesNotHoldLoop ==
    \A r \in Chats :
        BlockedOnBackend(loop, r) =>
            /\ loop.owner # r
            /\ loop.pc["health"] = "pending" => ENABLED HealthCheck
            /\ \A o \in Chats \ {r} : loop.pc[o] = "pending" => ENABLED ResumeChat(o)

\* C25: within one query, the sources and the confidence are derived from
\* the same semantic result list that is rendered into the context given to
\* the provider: the semantic context is the rendering of exactly the
\* results kept for sources and confidence, whatever the search backend does
\* on successive calls.
RenderedFrom(results) ==
    IF Len(results) = 0 THEN NoInfo
    ELSE Join(DocumentBlocks(results, 1), "\n\n")

C25_SourcesAndContextFromSameResults ==
    (AfterRetrieval /\ call.sem_ran) =>
        /\ call.semantic_context = RenderedFrom(call.search_results)
        /\ call.sources = _extract_sources_from_search(call.search_results)

\* C26: for every query at least one retriever runs, even when the
\* readiness flag is changed between the successive reads process_query and
\* process_query_stream make of it during the retrieval step.
C26_SomeRetrieverRuns ==
    (AfterRetrieval \/ call.pc = "raised") => (call.sem_ran \/ call.struct_ran)

\* C27: when the index is ready, semantic search returned no results and the
\* structured context is non-empty, the context given to the provider is
\* exactly the structured context, with no 'Semantic Search Results' section.
C27_NoSemanticSectionForEmptyResults ==
    (/\ AfterRetrieval
     /\ call.sem_ran
     /\ \A i \in DOMAIN call.reads : call.reads[i]
     /\ call.search_results = <<>>
     /\ call.semantic_context = RenderedFrom(<<>>)
     /\ call.structured_context # "") =>
        call.combined_context = call.structured_context

\* C28: _build_structured_context raises nothing of its own for any query
\* and any collection of programs the entity store can return, programs
\* without a product line included: the only way the structured retriever
\* ends a query early is a configuration or entity-store read error; a
\* program without a product line never makes the builder fail.
C28_AbsentOptionalFieldsTolerated ==
    call.pc = "raised" => call.raised # "AttributeError"

\* C29: whenever startup leaves the readiness flag true, the organization's
\* index holds at least one row: an initial build that wrote zero documents
\* does not mark the index ready.  (Stated while no other caller has
\* started a rebuild, which would clear the index on its own.)
C29_ReadyIndexIsNotEmpty ==
    (/\ startup.pc \in {"exiting", "serving"}
     /\ rag_ready
     /\ builds["other"].pc = "idle") =>
        /\ index # {}
        /\ startup.doc_count > 0

\* C30: after sync_linear completes, for every synced program the
\* strategic-objective links stored for it are exactly the objectives mapped
\* from the initiatives the project has in the tracker at that sync; a link
\* made by an earlier sync is gone once the project has left the initiative,
\* also when it has left every initiative.  (Stated for syncs whose link
\* writes all succeeded.)
C30_LinksFollowTracker ==
    (linear.pc = "completed" /\ ~linear.warned) =>
        \A p \in linear.synced :
            LinkedObjectives(linear, p)
              = {SoId(i) : i \in _extract_initiative_ids(linear.fetched, p)
                                  \cap linear.fetched.initiatives}

====
